---------------------------- MODULE Spec2Model ----------------------------
(***************************************************************************)
(* Model of the parameter reconciliation layer of the procedural terrain   *)
(* simulator (web front end: utils.ts, constants.ts and the main script)   *)
(* and of the settings store it drives.                                    *)
(*                                                                         *)
(* Number representation.  Scalar settings are fixed-point integers with   *)
(* ONE units per 1.0 (one unit = 0.00005), colour channels are fixed-point *)
(* integers with CH units per 1.0 (one unit = 1/10200, so that both 1/255  *)
(* and 0.005 are whole numbers of units).  Seeds and object counts are     *)
(* plain integers.  NaN is the value a failed parse or an undefined power  *)
(* yields.                                                                 *)
(***************************************************************************)
EXTENDS Integers, Sequences, FiniteSets, TLC

VARIABLES
    store,                       \* settings held by the generator (terrain, sky, particles)
    ui,                          \* values of the settings panel's inputs
    currentParticleSize,
    currentPresetId,
    savedCustomSettings,
    lastAppliedSettings,
    lastAppliedSkySettings,
    lastAppliedParticleSettings,
    calls,                       \* store calls made by the last handler, in order
    lastOp,                      \* the last handler run, with what it computed
    steps,                       \* number of handlers and input edits run so far
    catCur, catPrev, catOut, catEdits,  \* inputs and result of categorizeChanges on its own
    fnIn, fnOut,                 \* arguments and result of another function on its own
    sim,                         \* particle shader: the uniform SimParams
    particles_in,                \* particle shader: the buffer a step reads
    particles_out,               \* particle shader: the buffer a step writes
    pending,                     \* invocations of the running dispatch not yet executed
    simHist,                     \* what the steps so far did to each slot
    compute_params,              \* terrain shader: the uniform ComputeParams
    height_buffer,               \* terrain shader: the height of each grid vertex
    cells,                       \* invocations of the running compute_height dispatch not yet executed
    heightHist                   \* the heights the dispatches so far wrote, and over what

vars == <<store, ui, currentParticleSize, currentPresetId, savedCustomSettings,
          lastAppliedSettings, lastAppliedSkySettings, lastAppliedParticleSettings,
          calls, lastOp, steps, catCur, catPrev, catOut, catEdits, fnIn, fnOut,
          sim, particles_in, particles_out, pending, simHist,
          compute_params, height_buffer, cells, heightHist>>

simVars == <<sim, particles_in, particles_out, pending, simHist>>

terrainVars == <<compute_params, height_buffer, cells, heightHist>>

pageVars == <<store, ui, currentParticleSize, currentPresetId, savedCustomSettings,
              lastAppliedSettings, lastAppliedSkySettings, lastAppliedParticleSettings,
              calls, lastOp, steps>>

\* what a function on its own leaves alone
uiVars == <<pageVars, simVars, terrainVars>>

fnVars == <<fnIn, fnOut>>

\* what the handlers of the page leave alone
catVars == <<catCur, catPrev, catOut, catEdits, fnVars, simVars, terrainVars>>

---------------------------------------------------------------------------
(* Units and program constants *)

ONE == 2 * 10000                 \* scalar units per 1.0
CH == 40 * 255                   \* colour-channel units per 1.0
NaN == 0 - 2000000000            \* not-a-number
\* null for an object, for a name and for a number
NULL == [null |-> TRUE]
NULL_NAME == "null"
NULL_NUMBER == 0 - 1000000000

Abs(x) == IF x < 0 THEN 0 - x ELSE x

COLOR_EPSILON == 51              \* 0.005 in colour-channel units
NUMBER_EPSILON == 2              \* 0.0001 in scalar units
SEED_MAX == 1000000

GENERATION_SETTINGS ==
    <<"pattern_type", "terrain_scale", "height_scale", "height_variance",
      "octaves", "warp_strength", "roughness">>

COLOR_SETTINGS ==
    <<"color_abyss", "color_deep_water", "color_shallow_water", "color_sand",
      "color_grass", "color_rock", "color_snow", "color_sky", "color_sky_top",
      "color_sky_horizon">>

Range(s) == {s[i] : i \in DOMAIN s}

---------------------------------------------------------------------------
(* utils.ts: tolerance comparisons and change classification *)

colorsEqual_FirstChannelOnly(a, b) == Abs(a[1] - b[1]) < COLOR_EPSILON

colorsEqual(a, b) ==
    /\ Abs(a[1] - b[1]) < COLOR_EPSILON
    /\ Abs(a[2] - b[2]) < COLOR_EPSILON
    /\ Abs(a[3] - b[3]) < COLOR_EPSILON

numbersEqual_Inclusive(a, b) ==
    /\ a # NaN
    /\ b # NaN
    /\ Abs(a - b) <= NUMBER_EPSILON

\* Math.abs(a - b) < NUMBER_EPSILON; any comparison with NaN is false
numbersEqual(a, b) ==
    /\ a # NaN
    /\ b # NaN
    /\ Abs(a - b) < NUMBER_EPSILON

categorizeChanges_ColorsFirst(current, previous) ==
    LET generationChanged ==
            \E i \in DOMAIN GENERATION_SETTINGS :
                ~numbersEqual(current[GENERATION_SETTINGS[i]], previous[GENERATION_SETTINGS[i]])
        colorsChanged ==
            \E i \in DOMAIN COLOR_SETTINGS :
                ~colorsEqual(current[COLOR_SETTINGS[i]], previous[COLOR_SETTINGS[i]])
    IN  IF colorsChanged THEN "colors_only"
        ELSE IF generationChanged THEN "generation"
        ELSE "none"

categorizeChanges(current, previous) ==
    LET generationChanged ==
            \E i \in DOMAIN GENERATION_SETTINGS :
                ~numbersEqual(current[GENERATION_SETTINGS[i]], previous[GENERATION_SETTINGS[i]])
        colorsChanged ==
            \E i \in DOMAIN COLOR_SETTINGS :
                ~colorsEqual(current[COLOR_SETTINGS[i]], previous[COLOR_SETTINGS[i]])
    IN  IF generationChanged THEN "generation"
        ELSE IF colorsChanged THEN "colors_only"
        ELSE "none"

---------------------------------------------------------------------------
(* utils.ts: seed generation, colour text, non-linear sliders *)

\* the draws followed: the two ends of the range of Math.random() * SEED_MAX
SeedSamples == {0, SEED_MAX - 1}

\* Math.floor(Math.random() * SEED_MAX): any integer in 0..SEED_MAX-1
generateSeed == {s \in SeedSamples : 0 <= s /\ s < SEED_MAX}

\* nearest integer to a/b, halves up (b > 0)
RDiv(a, b) == (a + (b \div 2)) \div b

rgbToHex_Shorthand(r, g, b) ==
    <<17 * RDiv(r * 15, CH), 17 * RDiv(g * 15, CH), 17 * RDiv(b * 15, CH)>>

\* "#rrggbb" is modelled by its three bytes; Math.round(c * 255) per channel
rgbToHex(r, g, b) == <<RDiv(r * 255, CH), RDiv(g * 255, CH), RDiv(b * 255, CH)>>

\* a byte outside 00..ff does not print as two hex digits and the pattern fails
hexToRgb(hex) ==
    IF \A i \in 1..3 : hex[i] \in 0..255
    THEN <<(hex[1] * CH) \div 255, (hex[2] * CH) \div 255, (hex[3] * CH) \div 255>>
    ELSE <<0, 0, 0>>

R == 10 * 100                    \* fixed-point resolution of a normalized slider position

\* min, max in scalar units; exponent = num/den
SLIDER_CONFIGS ==
    [x \in {"terrain-scale", "warp-strength", "roughness"} |->
        CASE x = "terrain-scale" -> [min |-> 10, max |-> 1000, num |-> 3, den |-> 1, decimals |-> 4]
          [] x = "warp-strength" -> [min |-> 0, max |-> 100 * ONE, num |-> 2, den |-> 1, decimals |-> 0]
          [] x = "roughness" -> [min |-> 2000, max |-> 18000, num |-> 3, den |-> 2, decimals |-> 2]]

IPow(x, k) == IF k = 1 THEN x ELSE IF k = 2 THEN x * x ELSE x * x * x

RECURSIVE FloorRoot(_, _, _, _)
\* largest r in lo..hi-1 with r^k <= y, by bisection (lo^k <= y < hi^k)
FloorRoot(k, y, lo, hi) ==
    IF hi - lo <= 1 THEN lo
    ELSE LET mid == (lo + hi) \div 2
         IN  IF IPow(mid, k) <= y THEN FloorRoot(k, y, mid, hi) ELSE FloorRoot(k, y, lo, mid)

\* integer nearest to the k-th root of y (y >= 0)
IRoot(k, y) ==
    IF k = 1 THEN y
    ELSE LET f == FloorRoot(k, y, 0, IF k = 2 THEN 46340 ELSE 1290)
         IN  IF IPow(f + 1, k) - y < y - IPow(f, k) THEN f + 1 ELSE f

\* Math.pow(n/R, num/den) * R in fixed point; a negative base with a
\* fractional exponent is NaN
PowFP(n, num, den) ==
    IF n = NaN THEN NaN
    ELSE IF n < 0 /\ den # 1 THEN NaN
    ELSE IF n < 0 THEN (IF num = 2 THEN 1 ELSE 0 - 1) * RDiv(IPow(0 - n, num), IPow(R, num - 1))
    ELSE IF num >= den THEN IRoot(den, RDiv(IPow(n, num), IPow(R, num - den)))
    ELSE IRoot(den, IPow(n, num) * IPow(R, den - num))

sliderToValue_NoCurve(sliderId, sliderValue) == sliderValue

sliderToValue(sliderId, sliderValue) ==
    IF sliderId \notin DOMAIN SLIDER_CONFIGS THEN sliderValue
    ELSE IF sliderValue = NaN THEN NaN
    ELSE LET config == SLIDER_CONFIGS[sliderId]
             normalized == RDiv((sliderValue - config.min) * R, config.max - config.min)
             curved == PowFP(normalized, config.num, config.den)
         IN  IF curved = NaN THEN NaN
             ELSE config.min + RDiv(curved * (config.max - config.min), R)

Max2(a, b) == IF a >= b THEN a ELSE b
Min2(a, b) == IF a <= b THEN a ELSE b

valueToSlider(sliderId, actualValue) ==
    IF sliderId \notin DOMAIN SLIDER_CONFIGS THEN actualValue
    ELSE IF actualValue = NaN THEN NaN
    ELSE LET config == SLIDER_CONFIGS[sliderId]
             clamped == Max2(config.min, Min2(config.max, actualValue))
             normalized == RDiv((clamped - config.min) * R, config.max - config.min)
             uncurved == PowFP(normalized, config.den, config.num)
         IN  config.min + RDiv(uncurved * (config.max - config.min), R)

\* parseInt of the text of a number: the integer part (scalar units)
parseIntFP(x) == IF x = NaN THEN NaN ELSE IF x >= 0 THEN (x \div ONE) * ONE ELSE 0 - (((0 - x) \div ONE) * ONE)

---------------------------------------------------------------------------
(* constants.ts: colour themes, sky presets, weather presets *)

\* a colour given in hundredths per channel
Col(r, g, b) == <<r * (CH \div 100), g * (CH \div 100), b * (CH \div 100)>>

\* a scalar given in hundredths
Num(h) == h * (ONE \div 100)

\* Object.entries(COLOR_THEMES) in definition order
COLOR_THEMES ==
    << [name |-> "natural", abyss |-> Col(5, 10, 25), deep_water |-> Col(10, 20, 40),
        shallow_water |-> Col(20, 40, 60), sand |-> Col(76, 70, 50), grass |-> Col(22, 45, 15),
        rock |-> Col(45, 42, 38), snow |-> Col(95, 95, 98), sky |-> Col(60, 70, 85),
        sky_top |-> Col(40, 55, 80), sky_horizon |-> Col(75, 82, 92),
        star_color |-> Col(100, 100, 90), sun_color |-> Col(100, 95, 80), moon_color |-> Col(90, 90, 95)],
       [name |-> "desert", abyss |-> Col(8, 5, 2), deep_water |-> Col(15, 10, 5),
        shallow_water |-> Col(35, 25, 15), sand |-> Col(90, 80, 60), grass |-> Col(70, 60, 40),
        rock |-> Col(55, 45, 35), snow |-> Col(95, 90, 85), sky |-> Col(85, 75, 60),
        sky_top |-> Col(60, 50, 35), sky_horizon |-> Col(95, 85, 70),
        star_color |-> Col(100, 95, 80), sun_color |-> Col(100, 85, 50), moon_color |-> Col(95, 90, 80)],
       [name |-> "arctic", abyss |-> Col(2, 8, 15), deep_water |-> Col(5, 15, 25),
        shallow_water |-> Col(20, 35, 50), sand |-> Col(70, 75, 80), grass |-> Col(50, 55, 50),
        rock |-> Col(40, 42, 45), snow |-> Col(98, 98, 100), sky |-> Col(75, 85, 95),
        sky_top |-> Col(50, 65, 85), sky_horizon |-> Col(85, 90, 98),
        star_color |-> Col(90, 95, 100), sun_color |-> Col(100, 98, 95), moon_color |-> Col(85, 90, 100)],
       [name |-> "alien", abyss |-> Col(5, 2, 10), deep_water |-> Col(10, 5, 20),
        shallow_water |-> Col(20, 10, 35), sand |-> Col(40, 50, 30), grass |-> Col(10, 50, 40),
        rock |-> Col(30, 25, 40), snow |-> Col(70, 90, 85), sky |-> Col(50, 35, 60),
        sky_top |-> Col(30, 15, 50), sky_horizon |-> Col(60, 45, 70),
        star_color |-> Col(80, 50, 100), sun_color |-> Col(30, 100, 50), moon_color |-> Col(70, 30, 90)],
       [name |-> "volcanic", abyss |-> Col(2, 1, 1), deep_water |-> Col(5, 2, 2),
        shallow_water |-> Col(15, 5, 2), sand |-> Col(25, 15, 10), grass |-> Col(20, 15, 10),
        rock |-> Col(15, 12, 10), snow |-> Col(90, 40, 10), sky |-> Col(30, 20, 15),
        sky_top |-> Col(15, 8, 5), sky_horizon |-> Col(50, 30, 20),
        star_color |-> Col(100, 60, 30), sun_color |-> Col(100, 40, 10), moon_color |-> Col(80, 30, 20)],
       [name |-> "ink", abyss |-> Col(2, 2, 2), deep_water |-> Col(5, 5, 5),
        shallow_water |-> Col(15, 15, 15), sand |-> Col(25, 25, 25), grass |-> Col(12, 12, 12),
        rock |-> Col(30, 30, 30), snow |-> Col(8, 8, 8), sky |-> Col(76, 76, 76),
        sky_top |-> Col(60, 60, 60), sky_horizon |-> Col(85, 85, 85),
        star_color |-> Col(10, 10, 10), sun_color |-> Col(15, 15, 15), moon_color |-> Col(8, 8, 8)],
       [name |-> "chalk", abyss |-> Col(40, 40, 40), deep_water |-> Col(60, 60, 60),
        shallow_water |-> Col(70, 70, 70), sand |-> Col(85, 85, 85), grass |-> Col(75, 75, 75),
        rock |-> Col(90, 90, 90), snow |-> Col(98, 98, 98), sky |-> Col(5, 5, 5),
        sky_top |-> Col(2, 2, 2), sky_horizon |-> Col(15, 15, 15),
        star_color |-> Col(95, 95, 95), sun_color |-> Col(100, 100, 100), moon_color |-> Col(90, 90, 90)] >>

\* Object.entries(SKY_PRESETS) in definition order; a field a preset does not
\* define is absent from its record
SKY_PRESETS ==
    << [name |-> "none", star_count |-> 0, sun_count |-> 0, moon_count |-> 0],
       [name |-> "starry-night", star_count |-> 300, star_size_min |-> Num(50),
        star_size_max |-> Num(250), star_color |-> Col(100, 100, 90),
        star_twinkle_speed |-> Num(100), star_parallax |-> Num(10), sun_count |-> 0,
        moon_count |-> 1, moon_size |-> Num(4000), moon_color |-> Col(90, 90, 95),
        moon_parallax |-> Num(8)],
       [name |-> "dual-suns", star_count |-> 50, star_color |-> Col(100, 90, 70),
        sun_count |-> 2, sun_size |-> Num(6000), sun_color |-> Col(100, 85, 60),
        sun_parallax |-> Num(5), moon_count |-> 0],
       [name |-> "full-moon", star_count |-> 200, star_size_min |-> Num(30),
        star_size_max |-> Num(150), star_color |-> Col(90, 95, 100), sun_count |-> 0,
        moon_count |-> 1, moon_size |-> Num(8000), moon_color |-> Col(95, 95, 100),
        moon_parallax |-> Num(6)],
       [name |-> "clear-day", star_count |-> 0, sun_count |-> 1, sun_size |-> Num(5000),
        sun_color |-> Col(100, 95, 80), sun_parallax |-> Num(4), moon_count |-> 0] >>

\* particle_color is RGBA
WEATHER_PRESETS ==
    << [name |-> "none", density |-> 0],
       [name |-> "light-rain", particle_type |-> 0, density |-> Num(30), speed |-> Num(3000),
        wind_x |-> Num(200), wind_z |-> Num(100), particle_size |-> Num(40),
        particle_color |-> Col(70, 80, 90) \o <<50 * (CH \div 100)>>],
       [name |-> "heavy-rain", particle_type |-> 0, density |-> Num(50), speed |-> Num(4000),
        wind_x |-> Num(300), wind_z |-> Num(100), particle_size |-> Num(50),
        particle_color |-> Col(60, 70, 85) \o <<60 * (CH \div 100)>>],
       [name |-> "drizzle", particle_type |-> 0, density |-> Num(20), speed |-> Num(2000),
        wind_x |-> Num(100), wind_z |-> Num(50), particle_size |-> Num(30),
        particle_color |-> Col(75, 80, 90) \o <<40 * (CH \div 100)>>],
       [name |-> "light-snow", particle_type |-> 1, density |-> Num(30), speed |-> Num(500),
        wind_x |-> Num(100), wind_z |-> Num(50), particle_size |-> Num(40),
        particle_color |-> Col(100, 100, 100) \o <<70 * (CH \div 100)>>],
       [name |-> "heavy-snow", particle_type |-> 1, density |-> Num(50), speed |-> Num(800),
        wind_x |-> Num(200), wind_z |-> Num(100), particle_size |-> Num(50),
        particle_color |-> Col(95, 95, 100) \o <<75 * (CH \div 100)>>],
       [name |-> "blizzard", particle_type |-> 1, density |-> Num(70), speed |-> Num(1200),
        wind_x |-> Num(500), wind_z |-> Num(300), particle_size |-> Num(50),
        particle_color |-> Col(90, 92, 98) \o <<80 * (CH \div 100)>>] >>

SNOW_WEATHER_TYPES == {"light-snow", "heavy-snow", "blizzard"}

\* the entry of a table with the given name, or NULL
Lookup(table, name) ==
    IF \E i \in DOMAIN table : table[i].name = name
    THEN table[CHOOSE i \in DOMAIN table : table[i].name = name]
    ELSE NULL

Has(rec, field) == field \in DOMAIN rec

---------------------------------------------------------------------------
(* The generator side: presets and defaults served to the front end *)

TerrainColors(theme) ==
    [color_abyss |-> theme.abyss, color_deep_water |-> theme.deep_water,
     color_shallow_water |-> theme.shallow_water, color_sand |-> theme.sand,
     color_grass |-> theme.grass, color_rock |-> theme.rock, color_snow |-> theme.snow,
     color_sky |-> theme.sky, color_sky_top |-> theme.sky_top,
     color_sky_horizon |-> theme.sky_horizon]

\* get_preset(id): a bundle of terrain, sky and particle settings
PRESETS ==
    << [id |-> "natural", name |-> "Natural",
        terrain |->
            [terrain_scale |-> 500, height_scale |-> Num(8000), octaves |-> Num(600),
             warp_strength |-> Num(3000), height_variance |-> Num(50), roughness |-> Num(50),
             pattern_type |-> 0, seed |-> 0, ambient |-> Num(30), fog_start |-> Num(20000),
             fog_distance |-> Num(80000)] @@ TerrainColors(COLOR_THEMES[1]),
        sky |->
            [star_count |-> 0, star_size_min |-> Num(50), star_size_max |-> Num(250),
             star_color |-> Col(100, 100, 90), star_twinkle_speed |-> Num(100),
             star_parallax |-> Num(10), sun_count |-> 1, sun_size |-> Num(5000),
             sun_color |-> Col(100, 95, 80), sun_parallax |-> Num(4), moon_count |-> 0,
             moon_size |-> Num(4000), moon_color |-> Col(90, 90, 95), moon_parallax |-> Num(8),
             seed |-> 0],
        particles |->
            [particle_type |-> 0, density |-> 0, max_particles |-> 50000, speed |-> Num(3000),
             wind_x |-> 0, wind_z |-> 0, particle_size |-> Num(50),
             particle_color |-> Col(70, 80, 90) \o <<60 * (CH \div 100)>>,
             spawn_height |-> Num(10000), spawn_radius |-> Num(15000)]],
       [id |-> "arctic", name |-> "Arctic",
        terrain |->
            [terrain_scale |-> 18, height_scale |-> Num(12000), octaves |-> Num(500),
             warp_strength |-> Num(100), height_variance |-> Num(70), roughness |-> Num(60),
             pattern_type |-> Num(100), seed |-> 1, ambient |-> Num(40), fog_start |-> Num(15000),
             fog_distance |-> Num(60000)] @@ TerrainColors(COLOR_THEMES[3]),
        sky |->
            [star_count |-> 200, star_size_min |-> Num(30), star_size_max |-> Num(150),
             star_color |-> Col(90, 95, 100), star_twinkle_speed |-> Num(100),
             star_parallax |-> Num(10), sun_count |-> 0, sun_size |-> Num(5000),
             sun_color |-> Col(100, 98, 95), sun_parallax |-> Num(4), moon_count |-> 1,
             moon_size |-> Num(8000), moon_color |-> Col(95, 95, 100), moon_parallax |-> Num(6),
             seed |-> 1],
        particles |->
            [particle_type |-> 1, density |-> Num(30), max_particles |-> 50000, speed |-> Num(500),
             wind_x |-> Num(100), wind_z |-> Num(50), particle_size |-> Num(40),
             particle_color |-> Col(100, 100, 100) \o <<70 * (CH \div 100)>>,
             spawn_height |-> Num(10000), spawn_radius |-> Num(15000)]] >>

get_preset(presetId) == CHOOSE p \in Range(PRESETS) : p.id = presetId
PresetIds == {p.id : p \in Range(PRESETS)}
get_default_preset_id == PRESETS[1].id

DEFAULT_TERRAIN_SETTINGS == get_preset(get_default_preset_id).terrain
DEFAULT_SKY_SETTINGS == get_preset(get_default_preset_id).sky
DEFAULT_PARTICLE_SETTINGS == get_preset(get_default_preset_id).particles

\* one store call, as recorded in calls
Call(op, arg) == [op |-> op, arg |-> arg]

---------------------------------------------------------------------------
(* Main script: reading the settings panel *)

detectTheme(settings) ==
    LET matches(theme) ==
            /\ colorsEqual(settings.color_abyss, theme.abyss)
            /\ colorsEqual(settings.color_deep_water, theme.deep_water)
            /\ colorsEqual(settings.color_shallow_water, theme.shallow_water)
            /\ colorsEqual(settings.color_sand, theme.sand)
            /\ colorsEqual(settings.color_grass, theme.grass)
            /\ colorsEqual(settings.color_rock, theme.rock)
            /\ colorsEqual(settings.color_snow, theme.snow)
        hits == {i \in DOMAIN COLOR_THEMES : matches(COLOR_THEMES[i])}
    IN  IF hits = {} THEN NULL_NAME
        ELSE COLOR_THEMES[CHOOSE i \in hits : \A j \in hits : i <= j].name

detectSkyPreset(settings) ==
    LET matches(preset) ==
            /\ ~(Has(preset, "star_count") /\ preset.star_count # settings.star_count)
            /\ ~(Has(preset, "sun_count") /\ preset.sun_count # settings.sun_count)
            /\ ~(Has(preset, "moon_count") /\ preset.moon_count # settings.moon_count)
        hits == {i \in DOMAIN SKY_PRESETS : matches(SKY_PRESETS[i])}
    IN  IF hits = {} THEN NULL_NAME
        ELSE SKY_PRESETS[CHOOSE i \in hits : \A j \in hits : i <= j].name

buildParticleSettingsFromValues_WindUnchecked(densityValue, speedValue, windXValue, windZValue, colorHex, weatherPreset, particleSizeOverride, cps) ==
    LET density == IF densityValue = NaN \/ densityValue < 0 THEN 0 ELSE densityValue
        speed == IF speedValue = NaN \/ speedValue < 0 THEN DEFAULT_PARTICLE_SETTINGS.speed ELSE speedValue
        rgb == hexToRgb(colorHex)
    IN  [particle_type |-> IF density > 0 THEN (IF weatherPreset \in SNOW_WEATHER_TYPES THEN 1 ELSE 0) ELSE 0,
         density |-> density,
         max_particles |-> DEFAULT_PARTICLE_SETTINGS.max_particles,
         speed |-> speed,
         wind_x |-> windXValue,
         wind_z |-> windZValue,
         particle_size |-> particleSizeOverride,
         particle_color |-> <<rgb[1], rgb[2], rgb[3], 60 * (CH \div 100)>>,
         spawn_height |-> DEFAULT_PARTICLE_SETTINGS.spawn_height,
         spawn_radius |-> DEFAULT_PARTICLE_SETTINGS.spawn_radius]

\* the values are the texts of the inputs, already parsed where the text is
\* the print of a number; cps is currentParticleSize
buildParticleSettingsFromValues(densityValue, speedValue, windXValue, windZValue, colorHex, weatherPreset, particleSizeOverride, cps) ==
    LET density == IF densityValue = NaN \/ densityValue < 0 THEN 0 ELSE densityValue
        speed == IF speedValue = NaN \/ speedValue < 0 THEN DEFAULT_PARTICLE_SETTINGS.speed ELSE speedValue
        windX == IF windXValue = NaN THEN 0 ELSE windXValue
        windZ == IF windZValue = NaN THEN 0 ELSE windZValue
        rgb == hexToRgb(colorHex)
        isSnow == weatherPreset \in SNOW_WEATHER_TYPES
        defaultSize == DEFAULT_PARTICLE_SETTINGS.particle_size
        particleSize ==
            IF particleSizeOverride # NULL_NUMBER THEN particleSizeOverride
            ELSE IF cps # NULL_NUMBER THEN cps ELSE defaultSize
    IN  [particle_type |-> IF density > 0 THEN (IF isSnow THEN 1 ELSE 0) ELSE 0,
         density |-> density,
         max_particles |-> DEFAULT_PARTICLE_SETTINGS.max_particles,
         speed |-> speed,
         wind_x |-> windX,
         wind_z |-> windZ,
         particle_size |-> particleSize,
         particle_color |-> <<rgb[1], rgb[2], rgb[3], 60 * (CH \div 100)>>,
         spawn_height |-> DEFAULT_PARTICLE_SETTINGS.spawn_height,
         spawn_radius |-> DEFAULT_PARTICLE_SETTINGS.spawn_radius]

\* seed is the argument, or the value generateSeed returned when it is omitted;
\* base is lastAppliedSettings
collectTerrainSettings(u, base, seed) ==
    [terrain_scale |-> sliderToValue("terrain-scale", u["terrain-scale"]),
     height_scale |-> u["height-scale"],
     octaves |-> parseIntFP(u["octaves"]),
     warp_strength |-> sliderToValue("warp-strength", u["warp-strength"]),
     height_variance |-> u["height-variance"],
     roughness |-> sliderToValue("roughness", u["roughness"]),
     pattern_type |-> parseIntFP(u["pattern-type"]),
     seed |-> seed,
     ambient |-> base.ambient,
     fog_start |-> base.fog_start,
     fog_distance |-> base.fog_distance,
     color_abyss |-> hexToRgb(u["color-abyss"]),
     color_deep_water |-> hexToRgb(u["color-deep-water"]),
     color_shallow_water |-> hexToRgb(u["color-shallow-water"]),
     color_sand |-> hexToRgb(u["color-sand"]),
     color_grass |-> hexToRgb(u["color-grass"]),
     color_rock |-> hexToRgb(u["color-rock"]),
     color_snow |-> hexToRgb(u["color-snow"]),
     color_sky |-> hexToRgb(u["color-sky"]),
     color_sky_top |-> hexToRgb(u["color-sky-top"]),
     color_sky_horizon |-> hexToRgb(u["color-sky-horizon"])]

\* base is lastAppliedSkySettings
collectSkySettings(u, base, seed) ==
    [star_count |-> u["star-count"],
     star_size_min |-> base.star_size_min,
     star_size_max |-> base.star_size_max,
     star_color |-> hexToRgb(u["star-color"]),
     star_twinkle_speed |-> base.star_twinkle_speed,
     star_parallax |-> base.star_parallax,
     sun_count |-> u["sun-count"],
     sun_size |-> base.sun_size,
     sun_color |-> hexToRgb(u["sun-color"]),
     sun_parallax |-> base.sun_parallax,
     moon_count |-> u["moon-count"],
     moon_size |-> base.moon_size,
     moon_color |-> hexToRgb(u["moon-color"]),
     moon_parallax |-> base.moon_parallax,
     seed |-> seed]

collectParticleSettings(u, cps) ==
    LET baseSize == IF cps # NULL_NUMBER THEN cps ELSE DEFAULT_PARTICLE_SETTINGS.particle_size
    IN  buildParticleSettingsFromValues(u["particle-density"], u["particle-speed"], u["wind-x"],
            u["wind-z"], u["particle-color"], u["weather-preset"], baseSize, cps)

---------------------------------------------------------------------------
(* Main script and utils.ts: writing the settings panel *)

\* A write to the panel is a function from input ids to their new texts;
\* w @@ u is the panel u after the writes w.

\* input.value = valueToSlider(id, value).toString()
setSliderValue(id, value) == id :> valueToSlider(id, value)

setColorInputValue(id, rgb) == id :> rgbToHex(rgb[1], rgb[2], rgb[3])

setTerrainColorInputs(colors) ==
    setColorInputValue("color-abyss", colors.color_abyss)
    @@ setColorInputValue("color-deep-water", colors.color_deep_water)
    @@ setColorInputValue("color-shallow-water", colors.color_shallow_water)
    @@ setColorInputValue("color-sand", colors.color_sand)
    @@ setColorInputValue("color-grass", colors.color_grass)
    @@ setColorInputValue("color-rock", colors.color_rock)
    @@ setColorInputValue("color-snow", colors.color_snow)
    @@ setColorInputValue("color-sky", colors.color_sky)
    @@ setColorInputValue("color-sky-top", colors.color_sky_top)
    @@ setColorInputValue("color-sky-horizon", colors.color_sky_horizon)

setSkyColorInputs(colors) ==
    setColorInputValue("star-color", colors.star_color)
    @@ setColorInputValue("sun-color", colors.sun_color)
    @@ setColorInputValue("moon-color", colors.moon_color)

setParticleColorInput(color) == setColorInputValue("particle-color", color)

\* select.value = name when a name was detected, else the select is left alone
setDetected(u, id, detected) == id :> (IF detected # NULL_NAME THEN detected ELSE u[id])

\* the inputs after applyPresetToUI (currentParticleSize is set by the caller)
applyPresetToUI(u, preset) ==
    ("pattern-type" :> preset.terrain.pattern_type)
    @@ setSliderValue("terrain-scale", preset.terrain.terrain_scale)
    @@ setSliderValue("height-scale", preset.terrain.height_scale)
    @@ setSliderValue("height-variance", preset.terrain.height_variance)
    @@ setSliderValue("octaves", preset.terrain.octaves)
    @@ setSliderValue("warp-strength", preset.terrain.warp_strength)
    @@ setSliderValue("roughness", preset.terrain.roughness)
    @@ setTerrainColorInputs(preset.terrain)
    @@ setSliderValue("star-count", preset.sky.star_count)
    @@ setSliderValue("sun-count", preset.sky.sun_count)
    @@ setSliderValue("moon-count", preset.sky.moon_count)
    @@ setSkyColorInputs(preset.sky)
    @@ setSliderValue("particle-density", preset.particles.density)
    @@ setSliderValue("particle-speed", preset.particles.speed)
    @@ setSliderValue("wind-x", preset.particles.wind_x)
    @@ setSliderValue("wind-z", preset.particles.wind_z)
    @@ setParticleColorInput(preset.particles.particle_color)
    @@ setDetected(u, "color-theme", detectTheme(preset.terrain))
    @@ ("sky-preset" :> "none")
    @@ ("weather-preset" :> "none")
    @@ u

populateHTMLDefaults(u) ==
    ("pattern-type" :> DEFAULT_TERRAIN_SETTINGS.pattern_type)
    @@ setSliderValue("terrain-scale", DEFAULT_TERRAIN_SETTINGS.terrain_scale)
    @@ setSliderValue("height-scale", DEFAULT_TERRAIN_SETTINGS.height_scale)
    @@ setSliderValue("height-variance", DEFAULT_TERRAIN_SETTINGS.height_variance)
    @@ setSliderValue("octaves", DEFAULT_TERRAIN_SETTINGS.octaves)
    @@ setSliderValue("warp-strength", DEFAULT_TERRAIN_SETTINGS.warp_strength)
    @@ setSliderValue("roughness", DEFAULT_TERRAIN_SETTINGS.roughness)
    @@ setTerrainColorInputs(DEFAULT_TERRAIN_SETTINGS)
    @@ setSliderValue("star-count", DEFAULT_SKY_SETTINGS.star_count)
    @@ setSliderValue("sun-count", DEFAULT_SKY_SETTINGS.sun_count)
    @@ setSliderValue("moon-count", DEFAULT_SKY_SETTINGS.moon_count)
    @@ setSkyColorInputs(DEFAULT_SKY_SETTINGS)
    @@ setSliderValue("particle-density", DEFAULT_PARTICLE_SETTINGS.density)
    @@ setSliderValue("particle-speed", DEFAULT_PARTICLE_SETTINGS.speed)
    @@ setSliderValue("wind-x", DEFAULT_PARTICLE_SETTINGS.wind_x)
    @@ setSliderValue("wind-z", DEFAULT_PARTICLE_SETTINGS.wind_z)
    @@ setParticleColorInput(DEFAULT_PARTICLE_SETTINGS.particle_color)
    @@ setDetected(u, "color-theme", detectTheme(DEFAULT_TERRAIN_SETTINGS))
    @@ u

\* x || fallback on a number: the fallback when x is 0 or NaN
OrElse(x, fallback) == IF x = 0 \/ x = NaN THEN fallback ELSE x

\* setupSettingsPanel, "Load current settings from WASM": the inputs after
\* the terrain, sky and particle settings of the store were written to them
loadTerrainIntoUI(u, currentSettings) ==
    ("pattern-type" :> OrElse(currentSettings.pattern_type, 0))
    @@ ("terrain-scale" :> valueToSlider("terrain-scale", currentSettings.terrain_scale))
    @@ ("height-scale" :> currentSettings.height_scale)
    @@ ("height-variance" :> OrElse(currentSettings.height_variance, Num(50)))
    @@ ("octaves" :> currentSettings.octaves)
    @@ ("warp-strength" :> valueToSlider("warp-strength", currentSettings.warp_strength))
    @@ ("roughness" :> valueToSlider("roughness", OrElse(currentSettings.roughness, Num(50))))
    @@ setTerrainColorInputs(currentSettings)
    @@ setDetected(u, "color-theme", detectTheme(currentSettings))
    @@ u

loadSkyIntoUI(u, currentSkySettings) ==
    ("star-count" :> currentSkySettings.star_count)
    @@ ("sun-count" :> currentSkySettings.sun_count)
    @@ ("moon-count" :> currentSkySettings.moon_count)
    @@ setSkyColorInputs(currentSkySettings)
    @@ setDetected(u, "sky-preset", detectSkyPreset(currentSkySettings))
    @@ u

loadParticlesIntoUI(u, currentParticleSettings) ==
    ("particle-density" :> currentParticleSettings.density)
    @@ ("particle-speed" :> currentParticleSettings.speed)
    @@ ("wind-x" :> currentParticleSettings.wind_x)
    @@ ("wind-z" :> currentParticleSettings.wind_z)
    @@ setParticleColorInput(currentParticleSettings.particle_color)
    @@ u

\* the panel as the page declares it, before any script has run
InputIds ==
    {"pattern-type", "terrain-scale", "height-scale", "height-variance", "octaves",
     "warp-strength", "roughness", "color-abyss", "color-deep-water", "color-shallow-water",
     "color-sand", "color-grass", "color-rock", "color-snow", "color-sky", "color-sky-top",
     "color-sky-horizon", "star-count", "sun-count", "moon-count", "star-color", "sun-color",
     "moon-color", "particle-density", "particle-speed", "wind-x", "wind-z", "particle-color",
     "color-theme", "sky-preset", "weather-preset"}

PageInputs ==
    [id \in InputIds |->
        IF id \in {"color-theme"} THEN "natural"
        ELSE IF id \in {"sky-preset", "weather-preset"} THEN "none"
        ELSE IF id \in {"color-abyss", "color-deep-water", "color-shallow-water", "color-sand",
                        "color-grass", "color-rock", "color-snow", "color-sky", "color-sky-top",
                        "color-sky-horizon", "star-color", "sun-color", "moon-color",
                        "particle-color"} THEN <<0, 0, 0>>
        ELSE 0]

---------------------------------------------------------------------------
(* The settings store of the generator *)

\* the settings the store holds after one call
StoreAfter(st, call) ==
    CASE call.op = "update_terrain_settings" -> [st EXCEPT !.terrain = call.arg]
      [] call.op = "update_sky_settings" -> [st EXCEPT !.sky = call.arg]
      [] call.op = "update_particle_settings" -> [st EXCEPT !.particles = call.arg]
      [] OTHER -> st

RECURSIVE RunCalls(_, _)
RunCalls(st, cs) == IF cs = <<>> THEN st ELSE RunCalls(StoreAfter(st, Head(cs)), Tail(cs))

HasCall(cs, op) == \E i \in DOMAIN cs : cs[i].op = op
CallsOf(cs, op) == SelectSeq(cs, LAMBDA c : c.op = op)

---------------------------------------------------------------------------
(* Main script: initialisation *)

MaxSteps == 3                    \* handlers and input edits per run

InitialStore ==
    [terrain |-> DEFAULT_TERRAIN_SETTINGS, sky |-> DEFAULT_SKY_SETTINGS,
     particles |-> DEFAULT_PARTICLE_SETTINGS]

\* main() followed by setupSettingsPanel()'s load of the store's settings
InitUI ==
    LET u1 == populateHTMLDefaults(PageInputs)
        la_t0 == collectTerrainSettings(u1, DEFAULT_TERRAIN_SETTINGS, DEFAULT_TERRAIN_SETTINGS.seed)
        la_s0 == collectSkySettings(u1, DEFAULT_SKY_SETTINGS, DEFAULT_SKY_SETTINGS.seed)
        u2 == loadTerrainIntoUI(u1, InitialStore.terrain)
        u3 == loadSkyIntoUI(u2, InitialStore.sky)
        u4 == loadParticlesIntoUI(u3, InitialStore.particles)
    IN  /\ store = InitialStore
        /\ ui = u4
        /\ currentParticleSize = InitialStore.particles.particle_size
        /\ currentPresetId = get_default_preset_id
        /\ savedCustomSettings = NULL
        /\ lastAppliedSettings = collectTerrainSettings(u2, la_t0, InitialStore.terrain.seed)
        /\ lastAppliedSkySettings = collectSkySettings(u3, la_s0, InitialStore.sky.seed)
        /\ lastAppliedParticleSettings = InitialStore.particles
        /\ calls = <<>>
        /\ lastOp = [op |-> "main"]
        /\ steps = 0

SimIdle ==
    /\ sim = NULL /\ particles_in = NULL /\ particles_out = NULL
    /\ pending = {} /\ simHist = NULL

TerrainIdle ==
    /\ compute_params = NULL /\ height_buffer = NULL
    /\ cells = {} /\ heightHist = NULL

FnIdle == fnIn = NULL /\ fnOut = NULL /\ SimIdle /\ TerrainIdle

CatIdle == catCur = NULL /\ catPrev = NULL /\ catOut = NULL_NAME /\ catEdits = 0 /\ FnIdle

Init == InitUI /\ CatIdle

---------------------------------------------------------------------------
(* Main script: the Apply button *)

ApplyTerrain_RegenerateAlways(changeCategory, currentUISettings, lastApplied, fresh) ==
    CASE changeCategory = "none" ->
            [calls |-> <<>>, last |-> lastApplied, seeds |-> <<>>]
      [] changeCategory = "colors_only" ->
            [calls |-> <<Call("update_terrain_settings", currentUISettings),
                         Call("regenerate_terrain", NULL)>>,
             last |-> currentUISettings, seeds |-> <<>>]
      [] changeCategory = "generation" ->
            LET reseeded == [currentUISettings EXCEPT !.seed = fresh]
            IN  [calls |-> <<Call("update_terrain_settings", reseeded),
                             Call("regenerate_terrain", NULL)>>,
                 last |-> reseeded, seeds |-> <<fresh>>]

ApplyTerrain_ReseedOnColors(changeCategory, currentUISettings, lastApplied, fresh) ==
    CASE changeCategory = "none" ->
            [calls |-> <<>>, last |-> lastApplied, seeds |-> <<>>]
      [] changeCategory = "colors_only" ->
            LET reseeded == [currentUISettings EXCEPT !.seed = fresh]
            IN  [calls |-> <<Call("update_terrain_settings", reseeded)>>,
                 last |-> reseeded, seeds |-> <<fresh>>]
      [] changeCategory = "generation" ->
            LET reseeded == [currentUISettings EXCEPT !.seed = fresh]
            IN  [calls |-> <<Call("update_terrain_settings", reseeded),
                             Call("regenerate_terrain", NULL)>>,
                 last |-> reseeded, seeds |-> <<fresh>>]

\* the switch on changeCategory: the store calls it makes, the new
\* lastAppliedSettings, and the values taken from generateSeed (fresh is the
\* value generateSeed returns if it is called)
ApplyTerrain(changeCategory, currentUISettings, lastApplied, fresh) ==
    CASE changeCategory = "none" ->
            [calls |-> <<>>, last |-> lastApplied, seeds |-> <<>>]
      [] changeCategory = "colors_only" ->
            [calls |-> <<Call("update_terrain_settings", currentUISettings)>>,
             last |-> currentUISettings, seeds |-> <<>>]
      [] changeCategory = "generation" ->
            LET reseeded == [currentUISettings EXCEPT !.seed = fresh]
            IN  [calls |-> <<Call("update_terrain_settings", reseeded),
                             Call("regenerate_terrain", NULL)>>,
                 last |-> reseeded, seeds |-> <<fresh>>]

ApplySky_ReseedAlways(currentSkyUISettings, lastAppliedSky, fresh) ==
    LET countsChanged ==
            \/ currentSkyUISettings.star_count # lastAppliedSky.star_count
            \/ currentSkyUISettings.sun_count # lastAppliedSky.sun_count
            \/ currentSkyUISettings.moon_count # lastAppliedSky.moon_count
        skyChanged ==
            \/ countsChanged
            \/ ~colorsEqual(currentSkyUISettings.star_color, lastAppliedSky.star_color)
            \/ ~colorsEqual(currentSkyUISettings.sun_color, lastAppliedSky.sun_color)
            \/ ~colorsEqual(currentSkyUISettings.moon_color, lastAppliedSky.moon_color)
        applied == [currentSkyUISettings EXCEPT !.seed = fresh]
    IN  IF skyChanged
        THEN [calls |-> <<Call("update_sky_settings", applied)>>, last |-> applied,
              seeds |-> <<fresh>>, skyChanged |-> TRUE]
        ELSE [calls |-> <<>>, last |-> lastAppliedSky, seeds |-> <<>>, skyChanged |-> FALSE]

\* the sky part of Apply
ApplySky(currentSkyUISettings, lastAppliedSky, fresh) ==
    LET countsChanged ==
            \/ currentSkyUISettings.star_count # lastAppliedSky.star_count
            \/ currentSkyUISettings.sun_count # lastAppliedSky.sun_count
            \/ currentSkyUISettings.moon_count # lastAppliedSky.moon_count
        skyChanged ==
            \/ countsChanged
            \/ ~colorsEqual(currentSkyUISettings.star_color, lastAppliedSky.star_color)
            \/ ~colorsEqual(currentSkyUISettings.sun_color, lastAppliedSky.sun_color)
            \/ ~colorsEqual(currentSkyUISettings.moon_color, lastAppliedSky.moon_color)
        applied ==
            IF countsChanged THEN [currentSkyUISettings EXCEPT !.seed = fresh]
            ELSE currentSkyUISettings
    IN  IF skyChanged
        THEN [calls |-> <<Call("update_sky_settings", applied)>>, last |-> applied,
              seeds |-> IF countsChanged THEN <<fresh>> ELSE <<>>, skyChanged |-> TRUE]
        ELSE [calls |-> <<>>, last |-> lastAppliedSky, seeds |-> <<>>, skyChanged |-> FALSE]

ApplyParticles_SkipChanged(u, cps) ==
    LET currentParticleSettings == collectParticleSettings(u, cps)
    IN  IF currentParticleSettings = lastAppliedParticleSettings
        THEN [calls |-> <<Call("update_particle_settings", currentParticleSettings)>>,
              last |-> currentParticleSettings]
        ELSE [calls |-> <<>>, last |-> lastAppliedParticleSettings]

\* the particle part of Apply: always written
ApplyParticles(u, cps) ==
    LET currentParticleSettings == collectParticleSettings(u, cps)
    IN  [calls |-> <<Call("update_particle_settings", currentParticleSettings)>>,
         last |-> currentParticleSettings]

\* the assignments of the handler, given the category and its three parts
\* t (terrain), k (sky) and p (particles)
ApplyParts(changeCategory, t, k, p) ==
    /\ calls' = <<Call("get_terrain_settings", NULL)>> \o t.calls \o k.calls \o p.calls
    /\ store' = RunCalls(store, <<Call("get_terrain_settings", NULL)>> \o t.calls \o k.calls \o p.calls)
    /\ lastAppliedSettings' = t.last
    /\ lastAppliedSkySettings' = k.last
    /\ lastAppliedParticleSettings' = p.last
    /\ currentParticleSize' = p.last.particle_size
    /\ currentPresetId' =
         IF (changeCategory # "none" \/ k.skyChanged) /\ currentPresetId # "custom"
         THEN "custom" ELSE currentPresetId
    /\ lastOp' = [op |-> "Apply", category |-> changeCategory,
                  skyChanged |-> k.skyChanged, seeds |-> t.seeds \o k.seeds]
    /\ steps' = steps + 1
    /\ UNCHANGED <<ui, savedCustomSettings>>
    /\ UNCHANGED catVars

\* the handler from the collected terrain and sky settings on
ApplyCollected(currentUISettings, currentSkyUISettings, changeCategory, sT, sS) ==
    ApplyParts(changeCategory,
               ApplyTerrain(changeCategory, currentUISettings, lastAppliedSettings, sT),
               ApplySky(currentSkyUISettings, lastAppliedSkySettings, sS),
               ApplyParticles(ui, currentParticleSize))

ApplyCategorized(currentUISettings, sT, sS) ==
    ApplyCollected(currentUISettings,
                   collectSkySettings(ui, lastAppliedSkySettings, lastAppliedSkySettings.seed),
                   categorizeChanges(currentUISettings, lastAppliedSettings), sT, sS)

\* applyButton click; sT and sS are the values generateSeed returns for the
\* terrain and for the sky if it is called
Apply(sT, sS) ==
    ApplyCategorized(collectTerrainSettings(ui, lastAppliedSettings, store.terrain.seed), sT, sS)

---------------------------------------------------------------------------
(* Main script: preset buttons *)

\* the inputs hold what the store holds: no edit is waiting for Apply
UIMatchesStore ==
    /\ categorizeChanges(collectTerrainSettings(ui, store.terrain, store.terrain.seed),
                         store.terrain) = "none"
    /\ ui["star-count"] = store.sky.star_count
    /\ ui["sun-count"] = store.sky.sun_count
    /\ ui["moon-count"] = store.sky.moon_count
    /\ colorsEqual(hexToRgb(ui["star-color"]), store.sky.star_color)
    /\ colorsEqual(hexToRgb(ui["sun-color"]), store.sky.sun_color)
    /\ colorsEqual(hexToRgb(ui["moon-color"]), store.sky.moon_color)
    /\ numbersEqual(ui["particle-density"], store.particles.density)
    /\ numbersEqual(ui["particle-speed"], store.particles.speed)
    /\ numbersEqual(ui["wind-x"], store.particles.wind_x)
    /\ numbersEqual(ui["wind-z"], store.particles.wind_z)
    /\ colorsEqual(hexToRgb(ui["particle-color"]), store.particles.particle_color)
    /\ numbersEqual(currentParticleSize, store.particles.particle_size)

\* selectPreset('custom')
SelectCustom ==
    /\ IF savedCustomSettings # NULL
       THEN LET saved == savedCustomSettings
                u == applyPresetToUI(ui, saved)
                cps == saved.particles.particle_size
                cs == <<Call("update_terrain_settings", saved.terrain),
                        Call("regenerate_terrain", NULL),
                        Call("update_sky_settings", saved.sky),
                        Call("update_particle_settings", saved.particles)>>
                particles == collectParticleSettings(u, cps)
            IN  /\ ui' = u
                /\ calls' = cs
                /\ store' = RunCalls(store, cs)
                /\ lastAppliedSettings' = collectTerrainSettings(u, lastAppliedSettings, saved.terrain.seed)
                /\ lastAppliedSkySettings' = collectSkySettings(u, lastAppliedSkySettings, saved.sky.seed)
                /\ lastAppliedParticleSettings' = particles
                /\ currentParticleSize' = particles.particle_size
       ELSE /\ calls' = <<>>
            /\ UNCHANGED <<ui, store, lastAppliedSettings, lastAppliedSkySettings,
                           lastAppliedParticleSettings, currentParticleSize>>
    /\ currentPresetId' = "custom"
    /\ lastOp' = [op |-> "SelectCustom", restored |-> savedCustomSettings # NULL,
                  wasCustom |-> currentPresetId = "custom",
                  before |-> IF lastOp.op = "SelectNamedPreset" THEN lastOp.before ELSE NULL]
    /\ steps' = steps + 1
    /\ UNCHANGED savedCustomSettings
    /\ UNCHANGED catVars

\* "Save current settings before switching away from custom": d1 and d2 are
\* the values generateSeed returns inside the two collect calls
SnapshotOnLeave(u, lastT, lastS, cps, d1, d2) ==
    [terrain |-> collectTerrainSettings(u, lastT, d1),
     sky |-> collectSkySettings(u, lastS, d2),
     particles |-> collectParticleSettings(u, cps)]

NamedPresetSettings_KeepSeeds(preset, d3, d4) ==
    [terrain |-> preset.terrain, sky |-> preset.sky, particles |-> preset.particles]

\* the settings selectPreset sends to the store for a named preset; d3 and
\* d4 are the values generateSeed returns
NamedPresetSettings(preset, d3, d4) ==
    [terrain |-> [preset.terrain EXCEPT !.seed = d3],
     sky |-> [preset.sky EXCEPT !.seed = d4],
     particles |-> preset.particles]

\* the values generateSeed can return to the snapshot: it is called only when
\* the identity is 'custom'
SnapshotSeeds == IF currentPresetId = "custom" THEN generateSeed ELSE {0}

SelectNamedPreset_SnapshotAlways(presetId, d1, d2, d3, d4) ==
    /\ LET fromCustom == currentPresetId = "custom"
           preset == get_preset(presetId)
           new == NamedPresetSettings(preset, d3, d4)
           cs == <<Call("get_preset", presetId),
                   Call("update_terrain_settings", new.terrain),
                   Call("regenerate_terrain", NULL),
                   Call("update_sky_settings", new.sky),
                   Call("update_particle_settings", new.particles)>>
       IN  /\ savedCustomSettings' =
                SnapshotOnLeave(ui, lastAppliedSettings, lastAppliedSkySettings,
                                currentParticleSize, d1, d2)
           /\ ui' = applyPresetToUI(ui, preset)
           /\ calls' = cs
           /\ store' = RunCalls(store, cs)
           /\ currentPresetId' = presetId
           /\ lastAppliedSettings' = new.terrain
           /\ lastAppliedSkySettings' = new.sky
           /\ lastAppliedParticleSettings' = new.particles
           /\ currentParticleSize' = preset.particles.particle_size
           /\ lastOp' = [op |-> "SelectNamedPreset", presetId |-> presetId,
                         fromCustom |-> fromCustom,
                         before |-> IF fromCustom /\ UIMatchesStore THEN store ELSE NULL,
                         seeds |-> (IF fromCustom THEN <<d1, d2>> ELSE <<>>) \o <<d3, d4>>]
    /\ steps' = steps + 1
    /\ UNCHANGED catVars

\* selectPreset(presetId) for a preset of the list
SelectNamedPreset(presetId, d1, d2, d3, d4) ==
    /\ LET fromCustom == currentPresetId = "custom"
           preset == get_preset(presetId)
           new == NamedPresetSettings(preset, d3, d4)
           cs == <<Call("get_preset", presetId),
                   Call("update_terrain_settings", new.terrain),
                   Call("regenerate_terrain", NULL),
                   Call("update_sky_settings", new.sky),
                   Call("update_particle_settings", new.particles)>>
       IN  /\ savedCustomSettings' =
                IF fromCustom
                THEN SnapshotOnLeave(ui, lastAppliedSettings, lastAppliedSkySettings,
                                     currentParticleSize, d1, d2)
                ELSE savedCustomSettings
           /\ ui' = applyPresetToUI(ui, preset)
           /\ calls' = cs
           /\ store' = RunCalls(store, cs)
           /\ currentPresetId' = presetId
           /\ lastAppliedSettings' = new.terrain
           /\ lastAppliedSkySettings' = new.sky
           /\ lastAppliedParticleSettings' = new.particles
           /\ currentParticleSize' = preset.particles.particle_size
           /\ lastOp' = [op |-> "SelectNamedPreset", presetId |-> presetId,
                         fromCustom |-> fromCustom,
                         before |-> IF fromCustom /\ UIMatchesStore THEN store ELSE NULL,
                         seeds |-> (IF fromCustom THEN <<d1, d2>> ELSE <<>>) \o <<d3, d4>>]
    /\ steps' = steps + 1
    /\ UNCHANGED catVars

---------------------------------------------------------------------------
(* Main script: regenerating with a new seed *)

KeyR_WritesPanel(s) ==
    /\ LET currentSettings == collectTerrainSettings(ui, lastAppliedSettings, s)
           cs == <<Call("get_terrain_settings", NULL),
                   Call("update_terrain_settings", currentSettings),
                   Call("regenerate_terrain", NULL)>>
       IN  /\ calls' = cs
           /\ store' = RunCalls(store, cs)
           /\ lastAppliedSettings' = currentSettings
    /\ lastOp' = [op |-> "KeyR", seeds |-> <<s>>]
    /\ steps' = steps + 1
    /\ UNCHANGED <<ui, currentParticleSize, currentPresetId, savedCustomSettings,
                   lastAppliedSkySettings, lastAppliedParticleSettings>>
    /\ UNCHANGED catVars

\* keydown handler, key r or R
KeyR(s) ==
    /\ LET currentSettings == [store.terrain EXCEPT !.seed = s]
           cs == <<Call("get_terrain_settings", NULL),
                   Call("update_terrain_settings", currentSettings),
                   Call("regenerate_terrain", NULL)>>
       IN  /\ calls' = cs
           /\ store' = RunCalls(store, cs)
           /\ lastAppliedSettings' = collectTerrainSettings(ui, lastAppliedSettings, currentSettings.seed)
    /\ lastOp' = [op |-> "KeyR", seeds |-> <<s>>]
    /\ steps' = steps + 1
    /\ UNCHANGED <<ui, currentParticleSize, currentPresetId, savedCustomSettings,
                   lastAppliedSkySettings, lastAppliedParticleSettings>>
    /\ UNCHANGED catVars

\* resetButton click
Reset(s) ==
    /\ LET currentSettings == [store.terrain EXCEPT !.seed = s]
           cs == <<Call("get_terrain_settings", NULL),
                   Call("update_terrain_settings", currentSettings),
                   Call("regenerate_terrain", NULL)>>
       IN  /\ calls' = cs
           /\ store' = RunCalls(store, cs)
           /\ lastAppliedSettings' = currentSettings
    /\ lastOp' = [op |-> "Reset", seeds |-> <<s>>]
    /\ steps' = steps + 1
    /\ UNCHANGED <<ui, currentParticleSize, currentPresetId, savedCustomSettings,
                   lastAppliedSkySettings, lastAppliedParticleSettings>>
    /\ UNCHANGED catVars

---------------------------------------------------------------------------
(* Main script: edits of the settings panel *)

\* the user moves a slider or picks a select option
SliderInput_LeavesPreset(id, value) ==
    /\ ui' = [ui EXCEPT ![id] = value]
    /\ calls' = <<>>
    /\ lastOp' = [op |-> "SliderInput", id |-> id]
    /\ steps' = steps + 1
    /\ currentPresetId' = "custom"
    /\ UNCHANGED <<store, currentParticleSize, savedCustomSettings,
                   lastAppliedSettings, lastAppliedSkySettings, lastAppliedParticleSettings>>
    /\ UNCHANGED catVars

SliderInput(id, value) ==
    /\ ui' = [ui EXCEPT ![id] = value]
    /\ calls' = <<>>
    /\ lastOp' = [op |-> "SliderInput", id |-> id]
    /\ steps' = steps + 1
    /\ UNCHANGED <<store, currentParticleSize, currentPresetId, savedCustomSettings,
                   lastAppliedSettings, lastAppliedSkySettings, lastAppliedParticleSettings>>
    /\ UNCHANGED catVars

\* the user picks a colour
ColorInput(id, hex) ==
    /\ ui' = [ui EXCEPT ![id] = hex]
    /\ calls' = <<>>
    /\ lastOp' = [op |-> "ColorInput", id |-> id]
    /\ steps' = steps + 1
    /\ UNCHANGED <<store, currentParticleSize, currentPresetId, savedCustomSettings,
                   lastAppliedSettings, lastAppliedSkySettings, lastAppliedParticleSettings>>
    /\ UNCHANGED catVars

\* the write of one field of a preset: nothing when the preset lacks the field
setIfDefined(u, id, preset, field) == id :> (IF Has(preset, field) THEN preset[field] ELSE u[id])

setColorIfDefined(u, id, preset, field) ==
    id :> (IF Has(preset, field)
           THEN rgbToHex(preset[field][1], preset[field][2], preset[field][3])
           ELSE u[id])

\* colorThemeSelect change
ColorThemeChange(themeName) ==
    /\ LET theme == Lookup(COLOR_THEMES, themeName)
       IN  ui' = IF theme # NULL
                 THEN setTerrainColorInputs(TerrainColors(theme)) @@ setSkyColorInputs(theme)
                        @@ ("color-theme" :> themeName) @@ ui
                 ELSE ("color-theme" :> themeName) @@ ui
    /\ calls' = <<>>
    /\ lastOp' = [op |-> "ColorThemeChange", id |-> themeName]
    /\ steps' = steps + 1
    /\ UNCHANGED <<store, currentParticleSize, currentPresetId, savedCustomSettings,
                   lastAppliedSettings, lastAppliedSkySettings, lastAppliedParticleSettings>>
    /\ UNCHANGED catVars

\* skyPresetSelect change
SkyPresetChange(presetName) ==
    /\ LET preset == Lookup(SKY_PRESETS, presetName)
       IN  ui' = IF preset # NULL
                 THEN setIfDefined(ui, "star-count", preset, "star_count")
                        @@ setIfDefined(ui, "sun-count", preset, "sun_count")
                        @@ setIfDefined(ui, "moon-count", preset, "moon_count")
                        @@ setColorIfDefined(ui, "star-color", preset, "star_color")
                        @@ setColorIfDefined(ui, "sun-color", preset, "sun_color")
                        @@ setColorIfDefined(ui, "moon-color", preset, "moon_color")
                        @@ ("sky-preset" :> presetName) @@ ui
                 ELSE ("sky-preset" :> presetName) @@ ui
    /\ calls' = <<>>
    /\ lastOp' = [op |-> "SkyPresetChange", id |-> presetName]
    /\ steps' = steps + 1
    /\ UNCHANGED <<store, currentParticleSize, currentPresetId, savedCustomSettings,
                   lastAppliedSettings, lastAppliedSkySettings, lastAppliedParticleSettings>>
    /\ UNCHANGED catVars

\* weatherPresetSelect change
WeatherPresetChange(presetName) ==
    /\ LET preset == Lookup(WEATHER_PRESETS, presetName)
       IN  /\ ui' = IF preset # NULL
                    THEN setIfDefined(ui, "particle-density", preset, "density")
                           @@ setIfDefined(ui, "particle-speed", preset, "speed")
                           @@ setIfDefined(ui, "wind-x", preset, "wind_x")
                           @@ setIfDefined(ui, "wind-z", preset, "wind_z")
                           @@ setColorIfDefined(ui, "particle-color", preset, "particle_color")
                           @@ ("weather-preset" :> presetName) @@ ui
                    ELSE ("weather-preset" :> presetName) @@ ui
           /\ currentParticleSize' =
                IF preset = NULL THEN currentParticleSize
                ELSE IF Has(preset, "particle_size") THEN preset.particle_size
                ELSE DEFAULT_PARTICLE_SETTINGS.particle_size
    /\ calls' = <<>>
    /\ lastOp' = [op |-> "WeatherPresetChange", id |-> presetName]
    /\ steps' = steps + 1
    /\ UNCHANGED <<store, currentPresetId, savedCustomSettings,
                   lastAppliedSettings, lastAppliedSkySettings, lastAppliedParticleSettings>>
    /\ UNCHANGED catVars

\* the edits the model tries
SliderEdits == {<<"height-scale", Num(8000) + 1>>, <<"height-scale", Num(8000) + 2>>}
ColorEdits ==
    {<<"color-grass", <<57, 115, 38>>>>, <<"color-grass", <<58, 115, 38>>>>,
     <<"star-color", <<255, 0, 0>>>>}
ThemeEdits == {"desert"}
SkyEdits == {"dual-suns"}
WeatherEdits == {"light-snow"}

Next ==
    \/ \E sT \in generateSeed, sS \in generateSeed : steps < MaxSteps /\ Apply(sT, sS)
    \/ steps < MaxSteps /\ SelectCustom
    \/ \E presetId \in PresetIds, d3 \in generateSeed, d4 \in generateSeed :
         \E d1 \in SnapshotSeeds, d2 \in SnapshotSeeds :
            steps < MaxSteps /\ SelectNamedPreset(presetId, d1, d2, d3, d4)
    \/ \E s \in generateSeed : steps < MaxSteps /\ KeyR(s)
    \/ \E s \in generateSeed : steps < MaxSteps /\ Reset(s)
    \/ \E e \in SliderEdits : steps < MaxSteps /\ SliderInput(e[1], e[2])
    \/ \E e \in ColorEdits : steps < MaxSteps /\ ColorInput(e[1], e[2])
    \/ \E t \in ThemeEdits : steps < MaxSteps /\ ColorThemeChange(t)
    \/ \E p \in SkyEdits : steps < MaxSteps /\ SkyPresetChange(p)
    \/ \E p \in WeatherEdits : steps < MaxSteps /\ WeatherPresetChange(p)

Spec == Init /\ [][Next]_vars

---------------------------------------------------------------------------
(* Preset switching on its own: the preset buttons and the R key, followed  *)
(* over longer runs                                                         *)

MaxPresetSteps == 5              \* handlers per run of preset switching

NextPresets ==
    \/ steps < MaxPresetSteps /\ SelectCustom
    \/ \E presetId \in PresetIds, d3 \in generateSeed, d4 \in generateSeed :
         \E d1 \in SnapshotSeeds, d2 \in SnapshotSeeds :
            steps < MaxPresetSteps /\ SelectNamedPreset(presetId, d1, d2, d3, d4)
    \/ \E s \in generateSeed : steps < MaxPresetSteps /\ KeyR(s)

SpecPresets == Init /\ [][NextPresets]_vars

---------------------------------------------------------------------------
(* categorizeChanges on its own: two terrain records that start equal, one  *)
(* of which is then moved field by field before the function is applied     *)

MaxCatEdits == 2                 \* fields moved before categorizeChanges is applied

GenDeltas == {1, 2, 0 - 2}       \* below, at and beyond NUMBER_EPSILON
ColorDeltas == {50, 51}          \* below and at COLOR_EPSILON
OtherFields == {"seed", "ambient", "fog_start", "fog_distance"}

InitCat ==
    /\ InitUI
    /\ catPrev = DEFAULT_TERRAIN_SETTINGS
    /\ catCur = DEFAULT_TERRAIN_SETTINGS
    /\ catOut = "unset"
    /\ catEdits = 0
    /\ FnIdle

CatPerturbGen(key, d) ==
    /\ catOut = "unset"
    /\ catEdits < MaxCatEdits
    /\ catCur[key] = catPrev[key]
    /\ catCur' = [catCur EXCEPT ![key] = @ + d]
    /\ catEdits' = catEdits + 1
    /\ UNCHANGED <<catPrev, catOut>>
    /\ UNCHANGED <<uiVars, fnVars>>

CatPerturbColor(key, ch, d) ==
    /\ catOut = "unset"
    /\ catEdits < MaxCatEdits
    /\ catCur[key] = catPrev[key]
    /\ catCur' = [catCur EXCEPT ![key][ch] = @ + d]
    /\ catEdits' = catEdits + 1
    /\ UNCHANGED <<catPrev, catOut>>
    /\ UNCHANGED <<uiVars, fnVars>>

CatPerturbOther(key) ==
    /\ catOut = "unset"
    /\ catEdits < MaxCatEdits
    /\ catCur[key] = catPrev[key]
    /\ catCur' = [catCur EXCEPT ![key] = @ + ONE]
    /\ catEdits' = catEdits + 1
    /\ UNCHANGED <<catPrev, catOut>>
    /\ UNCHANGED <<uiVars, fnVars>>

CatCategorize ==
    /\ catOut = "unset"
    /\ catOut' = categorizeChanges(catCur, catPrev)
    /\ UNCHANGED <<catCur, catPrev, catEdits>>
    /\ UNCHANGED <<uiVars, fnVars>>

NextCat ==
    \/ \E key \in Range(GENERATION_SETTINGS), d \in GenDeltas : CatPerturbGen(key, d)
    \/ \E key \in Range(COLOR_SETTINGS), ch \in 1..3, d \in ColorDeltas : CatPerturbColor(key, ch, d)
    \/ \E key \in OtherFields : CatPerturbOther(key)
    \/ CatCategorize

SpecCat == InitCat /\ [][NextCat]_vars

---------------------------------------------------------------------------
(* Properties of categorizeChanges (under SpecCat) *)

\* what the claims call a difference, stated on the two records directly
GenerationFieldDiffers ==
    \E i \in DOMAIN GENERATION_SETTINGS :
        Abs(catCur[GENERATION_SETTINGS[i]] - catPrev[GENERATION_SETTINGS[i]]) >= NUMBER_EPSILON

ColorFieldDiffers ==
    \E i \in DOMAIN COLOR_SETTINGS : \E ch \in 1..3 :
        Abs(catCur[COLOR_SETTINGS[i]][ch] - catPrev[COLOR_SETTINGS[i]][ch]) >= COLOR_EPSILON

CategorizeApplied == catOut \in {"generation", "colors_only", "none"}

\* C1: categorizeChanges returns 'generation' exactly when one of the seven
\* generation fields differs by 0.0001 or more; otherwise 'colors_only'
\* exactly when a channel of one of the ten colour fields differs by 0.005 or
\* more; otherwise 'none'.
C1_CategoryByTolerance ==
    CategorizeApplied =>
        /\ (catOut = "generation") <=> GenerationFieldDiffers
        /\ (catOut = "colors_only") <=> (~GenerationFieldDiffers /\ ColorFieldDiffers)
        /\ (catOut = "none") <=> (~GenerationFieldDiffers /\ ~ColorFieldDiffers)

\* a generation field moved by exactly 0.0001 and nothing else: 'generation'
C1_Witness ==
    /\ catOut = "generation"
    /\ \E i \in DOMAIN GENERATION_SETTINGS :
        Abs(catCur[GENERATION_SETTINGS[i]] - catPrev[GENERATION_SETTINGS[i]]) = NUMBER_EPSILON
    /\ ~ColorFieldDiffers

\* C2: two records that differ only in seed, ambient, fog_start or
\* fog_distance are classified 'none', and a generation field that differs
\* beyond tolerance gives 'generation' however many colour fields differ too.
C2_OtherFieldsIgnoredGenerationDominates ==
    CategorizeApplied =>
        /\ ( /\ \A i \in DOMAIN GENERATION_SETTINGS :
                    catCur[GENERATION_SETTINGS[i]] = catPrev[GENERATION_SETTINGS[i]]
             /\ \A i \in DOMAIN COLOR_SETTINGS :
                    catCur[COLOR_SETTINGS[i]] = catPrev[COLOR_SETTINGS[i]] )
           => catOut = "none"
        /\ GenerationFieldDiffers => catOut = "generation"

\* a generation field and a colour field both differ, and the result is
\* 'generation'
C2_Witness ==
    /\ catOut = "generation"
    /\ GenerationFieldDiffers
    /\ ColorFieldDiffers

---------------------------------------------------------------------------
(* Properties of the Apply button (under Spec) *)

\* what Apply collects from the panel and how it classifies it, in the state
\* the click finds
CollectedTerrain == collectTerrainSettings(ui, lastAppliedSettings, store.terrain.seed)
CollectedCategory == categorizeChanges(CollectedTerrain, lastAppliedSettings)
CollectedSky == collectSkySettings(ui, lastAppliedSkySettings, lastAppliedSkySettings.seed)

SkyCountsDiffer ==
    \/ CollectedSky.star_count # lastAppliedSkySettings.star_count
    \/ CollectedSky.sun_count # lastAppliedSkySettings.sun_count
    \/ CollectedSky.moon_count # lastAppliedSkySettings.moon_count

SkyColorsDiffer ==
    \E ch \in 1..3 :
        \/ Abs(CollectedSky.star_color[ch] - lastAppliedSkySettings.star_color[ch]) >= COLOR_EPSILON
        \/ Abs(CollectedSky.sun_color[ch] - lastAppliedSkySettings.sun_color[ch]) >= COLOR_EPSILON
        \/ Abs(CollectedSky.moon_color[ch] - lastAppliedSkySettings.moon_color[ch]) >= COLOR_EPSILON

\* C3: on an Apply click regenerate_terrain is called exactly when the
\* collected terrain settings are classified 'generation' against the
\* last-applied ones, and then the settings written to the store and kept as
\* last-applied carry the value generateSeed returned.
C3_RegenerateIffGeneration ==
    [][lastOp'.op = "Apply" =>
        LET written == CallsOf(calls', "update_terrain_settings")
        IN  /\ HasCall(calls', "regenerate_terrain") <=> (CollectedCategory = "generation")
            /\ CollectedCategory = "generation" =>
                /\ Len(written) = 1
                /\ written[1].arg.seed = lastOp'.seeds[1]
                /\ written[1].arg = [CollectedTerrain EXCEPT !.seed = lastOp'.seeds[1]]
                /\ store'.terrain = written[1].arg
                /\ lastAppliedSettings' = written[1].arg]_vars

\* an Apply classified 'generation' that regenerated with a seed other than
\* the one the store held
C3_Witness ==
    /\ lastOp.op = "Apply"
    /\ lastOp.category = "generation"
    /\ HasCall(calls, "regenerate_terrain")
    /\ store.terrain.seed = lastOp.seeds[1]
    /\ store.terrain.seed # InitialStore.terrain.seed

\* C4: an Apply classified 'colors_only' calls update_terrain_settings once
\* with the seed the store holds and does not regenerate, so the store's seed
\* is unchanged; an Apply classified 'none' calls neither and leaves the
\* last-applied terrain settings as they were.
C4_ColorsKeepSeedNoneIsNoOp ==
    [][lastOp'.op = "Apply" =>
        LET written == CallsOf(calls', "update_terrain_settings")
        IN  /\ CollectedCategory = "colors_only" =>
                /\ Len(written) = 1
                /\ written[1].arg.seed = store.terrain.seed
                /\ ~HasCall(calls', "regenerate_terrain")
                /\ store'.terrain.seed = store.terrain.seed
            /\ CollectedCategory = "none" =>
                /\ Len(written) = 0
                /\ ~HasCall(calls', "regenerate_terrain")
                /\ lastAppliedSettings' = lastAppliedSettings]_vars

\* an Apply classified 'colors_only' that wrote the new colours
C4_Witness ==
    /\ lastOp.op = "Apply"
    /\ lastOp.category = "colors_only"
    /\ Len(CallsOf(calls, "update_terrain_settings")) = 1
    /\ ~HasCall(calls, "regenerate_terrain")
    /\ store.terrain.color_grass # InitialStore.terrain.color_grass

---------------------------------------------------------------------------
(* Properties of the last-applied copies and of the presets *)

\* equality within the comparison tolerances, field by field
NumbersMatch(a, b) == Abs(a - b) < NUMBER_EPSILON
ColorsMatch(a, b) == \A ch \in DOMAIN a : Abs(a[ch] - b[ch]) < COLOR_EPSILON

TerrainMatches(a, b) ==
    /\ \A i \in DOMAIN GENERATION_SETTINGS :
        NumbersMatch(a[GENERATION_SETTINGS[i]], b[GENERATION_SETTINGS[i]])
    /\ \A i \in DOMAIN COLOR_SETTINGS :
        ColorsMatch(a[COLOR_SETTINGS[i]], b[COLOR_SETTINGS[i]])

TerrainRestMatches(a, b) ==
    /\ NumbersMatch(a.ambient, b.ambient)
    /\ NumbersMatch(a.fog_start, b.fog_start)
    /\ NumbersMatch(a.fog_distance, b.fog_distance)

SkyMatches(a, b) ==
    /\ a.star_count = b.star_count
    /\ a.sun_count = b.sun_count
    /\ a.moon_count = b.moon_count
    /\ ColorsMatch(a.star_color, b.star_color)
    /\ ColorsMatch(a.sun_color, b.sun_color)
    /\ ColorsMatch(a.moon_color, b.moon_color)
    /\ NumbersMatch(a.star_size_min, b.star_size_min)
    /\ NumbersMatch(a.star_size_max, b.star_size_max)
    /\ NumbersMatch(a.star_twinkle_speed, b.star_twinkle_speed)
    /\ NumbersMatch(a.star_parallax, b.star_parallax)
    /\ NumbersMatch(a.sun_size, b.sun_size)
    /\ NumbersMatch(a.sun_parallax, b.sun_parallax)
    /\ NumbersMatch(a.moon_size, b.moon_size)
    /\ NumbersMatch(a.moon_parallax, b.moon_parallax)

ParticlesMatch(a, b) ==
    /\ a.particle_type = b.particle_type
    /\ a.max_particles = b.max_particles
    /\ NumbersMatch(a.density, b.density)
    /\ NumbersMatch(a.speed, b.speed)
    /\ NumbersMatch(a.wind_x, b.wind_x)
    /\ NumbersMatch(a.wind_z, b.wind_z)
    /\ NumbersMatch(a.particle_size, b.particle_size)
    /\ ColorsMatch(a.particle_color, b.particle_color)
    /\ NumbersMatch(a.spawn_height, b.spawn_height)
    /\ NumbersMatch(a.spawn_radius, b.spawn_radius)

\* C5: after every completed operation the last-applied terrain settings
\* equal the store's terrain settings in every generation field, every colour
\* field and the seed, within tolerance (no unapplied edit of the panel is in
\* the last-applied copy).
C5_LastAppliedEqualsStore ==
    /\ TerrainMatches(lastAppliedSettings, store.terrain)
    /\ lastAppliedSettings.seed = store.terrain.seed

\* C8: when a named preset is selected while the identity is 'custom', the
\* snapshot taken equals the terrain, sky and particle settings last applied
\* to the store, seeds included.
C8_SnapshotIsApplied ==
    [][(lastOp'.op = "SelectNamedPreset" /\ currentPresetId = "custom") =>
        /\ TerrainMatches(savedCustomSettings'.terrain, store.terrain)
        /\ TerrainRestMatches(savedCustomSettings'.terrain, store.terrain)
        /\ savedCustomSettings'.terrain.seed = store.terrain.seed
        /\ SkyMatches(savedCustomSettings'.sky, store.sky)
        /\ savedCustomSettings'.sky.seed = store.sky.seed
        /\ ParticlesMatch(savedCustomSettings'.particles, store.particles)]_vars

\* C6: from identity 'custom' with applied settings X and no unapplied edit,
\* selecting a named preset and then 'custom' leaves the identity 'custom' and
\* the store holding terrain, sky and particle settings equal to X within
\* tolerance in every field other than the seeds.
C6_CustomRoundTrip ==
    (lastOp.op = "SelectCustom" /\ lastOp.before # NULL) =>
        /\ currentPresetId = "custom"
        /\ TerrainMatches(store.terrain, lastOp.before.terrain)
        /\ TerrainRestMatches(store.terrain, lastOp.before.terrain)
        /\ SkyMatches(store.sky, lastOp.before.sky)
        /\ ParticlesMatch(store.particles, lastOp.before.particles)

\* C7: in a state whose identity is already 'custom', selecting 'custom'
\* again changes neither the store, nor the last-applied settings, nor the
\* values of the panel.
C7_CustomAgainIsNoOp ==
    [][(lastOp'.op = "SelectCustom" /\ currentPresetId = "custom") =>
        UNCHANGED <<store, lastAppliedSettings, lastAppliedSkySettings,
                    lastAppliedParticleSettings, ui>>]_vars

\* what selectPreset leaves behind for the named preset it was called with:
\* the identity, and the store and the last-applied copies holding the
\* preset's bundle with the two values generateSeed returned as seeds
NamedPresetApplied ==
    LET preset == get_preset(lastOp.presetId)
        n == Len(lastOp.seeds)
        terrain == [preset.terrain EXCEPT !.seed = lastOp.seeds[n - 1]]
        sky == [preset.sky EXCEPT !.seed = lastOp.seeds[n]]
    IN  /\ currentPresetId = lastOp.presetId
        /\ store.terrain = terrain
        /\ store.sky = sky
        /\ store.particles = preset.particles
        /\ lastAppliedSettings = terrain
        /\ lastAppliedSkySettings = sky
        /\ lastAppliedParticleSettings = preset.particles

\* C9 as amended: after selectPreset(P) for a named preset P the identity is
\* P and the store and the last-applied copies hold P's bundle in every field
\* except the terrain and sky seeds, which are the values generateSeed
\* returned (they may coincide with P's seeds).
C9_PresetAppliedWithFreshSeeds ==
    lastOp.op = "SelectNamedPreset" => NamedPresetApplied

\* a named preset was selected and given seeds other than its own
C9_Witness ==
    /\ lastOp.op = "SelectNamedPreset"
    /\ lastOp.presetId = "arctic"
    /\ currentPresetId = "arctic"
    /\ store.terrain.seed # get_preset("arctic").terrain.seed
    /\ store.sky.seed # get_preset("arctic").sky.seed
    /\ store.particles = get_preset("arctic").particles

\* C9 as claimed: ... and the terrain and sky seeds differ from P's seeds.
C9_SeedsDifferFromPreset ==
    lastOp.op = "SelectNamedPreset" =>
        /\ NamedPresetApplied
        /\ store.terrain.seed # get_preset(lastOp.presetId).terrain.seed
        /\ store.sky.seed # get_preset(lastOp.presetId).sky.seed

---------------------------------------------------------------------------
(* Particles on Apply, reset and R, edits of the panel *)

\* the particle settings Apply collects from the panel in the state the click
\* finds
CollectedParticles == collectParticleSettings(ui, currentParticleSize)

\* C11: on every Apply click, whatever the terrain category and whether or
\* not the sky changed, the particle settings collected from the panel are
\* written with update_particle_settings and become the last-applied particle
\* settings; regenerate_terrain is called only for a terrain change of
\* category 'generation', never for particles.
C11_ParticlesAlwaysApplied ==
    [][lastOp'.op = "Apply" =>
        LET written == CallsOf(calls', "update_particle_settings")
        IN  /\ Len(written) = 1
            /\ written[1].arg = CollectedParticles
            /\ store'.particles = CollectedParticles
            /\ lastAppliedParticleSettings' = CollectedParticles
            /\ HasCall(calls', "regenerate_terrain") => CollectedCategory = "generation"]_vars

\* an Apply with terrain 'none' and the sky unchanged that wrote changed
\* particle settings and did not regenerate
C11_Witness ==
    /\ lastOp.op = "Apply"
    /\ lastOp.category = "none"
    /\ ~lastOp.skyChanged
    /\ ui["weather-preset"] = "light-snow"
    /\ store.particles # InitialStore.particles
    /\ store.particles = lastAppliedParticleSettings
    /\ Len(CallsOf(calls, "update_particle_settings")) = 1
    /\ ~HasCall(calls, "regenerate_terrain")

\* C12: the reset button and the R key each replace only the seed of the
\* store's terrain settings by the value generateSeed returned and call
\* regenerate_terrain; every other terrain field of the store, the sky and
\* particle settings, the identity and the saved snapshot are unchanged.
C12_ReseedOnly ==
    [][lastOp'.op \in {"KeyR", "Reset"} =>
        /\ store' = [store EXCEPT !.terrain.seed = lastOp'.seeds[1]]
        /\ Len(CallsOf(calls', "update_terrain_settings")) = 1
        /\ Len(CallsOf(calls', "regenerate_terrain")) = 1
        /\ ~HasCall(calls', "update_sky_settings")
        /\ ~HasCall(calls', "update_particle_settings")
        /\ UNCHANGED <<lastAppliedSkySettings, lastAppliedParticleSettings,
                       currentPresetId, savedCustomSettings>>]_vars

\* the R key pressed while an edit of the height-scale slider waits for
\* Apply: the store has a new seed and still the old height scale
C12_Witness ==
    /\ lastOp.op = "KeyR"
    /\ HasCall(calls, "regenerate_terrain")
    /\ store.terrain.seed # InitialStore.terrain.seed
    /\ ui["height-scale"] = Num(8000) + 2
    /\ store.terrain.height_scale = InitialStore.terrain.height_scale

---------------------------------------------------------------------------
(* Main script: a store call that throws inside a handler.  The call that   *)
(* throws leaves the store as it was; the handler's statements before it    *)
(* have run, the statements after it up to the catch clause have not.       *)
(* caught tells whether the handler has a catch clause around the call.     *)

\* the effect of the calls cs of which the k-th throws
Thrown(handler, cs, k, caught) ==
    /\ k \in 1..Len(cs)
    /\ calls' = SubSeq(cs, 1, k)
    /\ store' = RunCalls(store, SubSeq(cs, 1, k - 1))
    /\ lastOp' = [op |-> "Throw", handler |-> handler, failed |-> cs[k].op, at |-> k,
                  caught |-> caught]

\* the terrain switch of Apply for the settings collected
ApplyTerrainFor(currentUISettings, lastApplied, fresh) ==
    ApplyTerrain(categorizeChanges(currentUISettings, lastApplied), currentUISettings,
                 lastApplied, fresh)

\* Apply with terrain part t, sky part s and particle part p, the k-th store
\* call throws: each last-applied copy is assigned after the calls of its part
ApplyThrowsAt(t, s, p, k) ==
    /\ Thrown("Apply", <<Call("get_terrain_settings", NULL)>> \o t.calls \o s.calls \o p.calls,
              k, TRUE)
    /\ lastAppliedSettings' = IF k > 1 + Len(t.calls) THEN t.last ELSE lastAppliedSettings
    /\ lastAppliedSkySettings' =
         IF k > 1 + Len(t.calls) + Len(s.calls) THEN s.last ELSE lastAppliedSkySettings

\* applyButton click, the k-th store call throws: try ... catch around all
ApplyThrows(sT, sS, k) ==
    /\ ApplyThrowsAt(
         ApplyTerrainFor(collectTerrainSettings(ui, lastAppliedSettings, store.terrain.seed),
                         lastAppliedSettings, sT),
         ApplySky(collectSkySettings(ui, lastAppliedSkySettings, lastAppliedSkySettings.seed),
                  lastAppliedSkySettings, sS),
         ApplyParticles(ui, currentParticleSize), k)
    /\ steps' = steps + 1
    /\ UNCHANGED <<ui, savedCustomSettings, lastAppliedParticleSettings,
                   currentParticleSize, currentPresetId>>
    /\ UNCHANGED catVars

\* the store calls of selectPreset for the settings new
PresetCalls(new) ==
    <<Call("update_terrain_settings", new.terrain),
      Call("regenerate_terrain", NULL),
      Call("update_sky_settings", new.sky),
      Call("update_particle_settings", new.particles)>>

\* selectPreset(presetId) for a preset of the list, the k-th store call
\* throws: the snapshot is taken before the try block, the panel is written
\* after get_preset
SelectNamedPresetThrows(presetId, d1, d2, d3, d4, k) ==
    /\ Thrown("SelectNamedPreset",
              <<Call("get_preset", presetId)>>
                 \o PresetCalls(NamedPresetSettings(get_preset(presetId), d3, d4)),
              k, TRUE)
    /\ savedCustomSettings' =
         IF currentPresetId = "custom"
         THEN SnapshotOnLeave(ui, lastAppliedSettings, lastAppliedSkySettings,
                              currentParticleSize, d1, d2)
         ELSE savedCustomSettings
    /\ ui' = IF k = 1 THEN ui ELSE applyPresetToUI(ui, get_preset(presetId))
    /\ steps' = steps + 1
    /\ UNCHANGED <<lastAppliedSettings, lastAppliedSkySettings, lastAppliedParticleSettings,
                   currentParticleSize, currentPresetId>>
    /\ UNCHANGED catVars

\* selectPreset('custom') with a saved snapshot, the k-th store call throws:
\* the branch is not inside a try block
SelectCustomThrows(k) ==
    /\ savedCustomSettings # NULL
    /\ Thrown("SelectCustom", PresetCalls(savedCustomSettings), k, FALSE)
    /\ ui' = applyPresetToUI(ui, savedCustomSettings)
    /\ steps' = steps + 1
    /\ UNCHANGED <<savedCustomSettings, lastAppliedSettings, lastAppliedSkySettings,
                   lastAppliedParticleSettings, currentParticleSize, currentPresetId>>
    /\ UNCHANGED catVars

\* the R key (handler "KeyR") or the reset button (handler "Reset"), the k-th
\* store call throws: try ... catch around all, lastAppliedSettings is
\* assigned after the last call
ReseedThrows(handler, s, k) ==
    /\ Thrown(handler,
              <<Call("get_terrain_settings", NULL),
                Call("update_terrain_settings", [store.terrain EXCEPT !.seed = s]),
                Call("regenerate_terrain", NULL)>>,
              k, TRUE)
    /\ steps' = steps + 1
    /\ UNCHANGED <<ui, savedCustomSettings, lastAppliedSettings, lastAppliedSkySettings,
                   lastAppliedParticleSettings, currentParticleSize, currentPresetId>>
    /\ UNCHANGED catVars

MaxThrowSteps == 3               \* handlers and edits per run with a throwing call

NextThrow ==
    \/ steps < MaxThrowSteps /\ SelectCustom
    \/ \E presetId \in PresetIds, d3 \in generateSeed, d4 \in generateSeed :
         \E d1 \in SnapshotSeeds, d2 \in SnapshotSeeds :
            steps < MaxThrowSteps /\ SelectNamedPreset(presetId, d1, d2, d3, d4)
    \/ \E e \in SliderEdits : steps < MaxThrowSteps /\ SliderInput(e[1], e[2])
    \/ \E sT \in generateSeed, sS \in generateSeed, k \in 1..5 :
            steps < MaxThrowSteps /\ ApplyThrows(sT, sS, k)
    \/ \E presetId \in PresetIds, d3 \in generateSeed, d4 \in generateSeed, k \in 1..5 :
         \E d1 \in SnapshotSeeds, d2 \in SnapshotSeeds :
            steps < MaxThrowSteps /\ SelectNamedPresetThrows(presetId, d1, d2, d3, d4, k)
    \/ \E k \in 1..4 : steps < MaxThrowSteps /\ SelectCustomThrows(k)
    \/ \E handler \in {"KeyR", "Reset"}, s \in generateSeed, k \in 1..3 :
            steps < MaxThrowSteps /\ ReseedThrows(handler, s, k)

SpecThrow == Init /\ [][NextThrow]_vars

\* C13: a store call that throws during Apply, reset, R, selection of a named
\* preset or Custom restore is caught inside that handler and does not
\* propagate out of it.
C13_ThrowsAreCaught ==
    lastOp.op = "Throw" => lastOp.caught

---------------------------------------------------------------------------
(* buildParticleSettingsFromValues on texts of any shape.  A text is a      *)
(* sequence of characters; parseFloat reads the longest prefix that is a    *)
(* decimal literal, after leading blanks, and yields NaN if there is none.  *)

MaxTextLen == 3                  \* characters per text of a numeric input

TextChars == {"-", "1", ".", "x", " "}
Digits == {"0", "1", "2", "3", "4", "5", "6", "7", "8", "9"}

RECURSIVE Texts(_)
Texts(n) == IF n = 0 THEN {<<>>} ELSE Texts(n - 1) \cup {Append(t, c) : t \in Texts(n - 1), c \in TextChars}

DigitValue(c) == CHOOSE d \in 0..9 : <<"0", "1", "2", "3", "4", "5", "6", "7", "8", "9">>[d + 1] = c

RECURSIVE SkipBlanks(_)
SkipBlanks(t) == IF t # <<>> /\ Head(t) = " " THEN SkipBlanks(Tail(t)) ELSE t

\* number of leading digits of t
RECURSIVE LeadingDigits(_)
LeadingDigits(t) == IF t # <<>> /\ Head(t) \in Digits THEN 1 + LeadingDigits(Tail(t)) ELSE 0

\* value of the digits t[1..n] as an integer
RECURSIVE DigitsValue(_, _)
DigitsValue(t, n) == IF n = 0 THEN 0 ELSE 10 * DigitsValue(t, n - 1) + DigitValue(t[n])

\* parseFloat(text) in scalar units (texts without exponent part or Infinity)
parseFloat(text) ==
    LET t == SkipBlanks(text)
        negative == t # <<>> /\ Head(t) = "-"
        body == IF t # <<>> /\ Head(t) \in {"-", "+"} THEN Tail(t) ELSE t
        nInt == LeadingDigits(body)
        afterInt == SubSeq(body, nInt + 1, Len(body))
        hasPoint == afterInt # <<>> /\ Head(afterInt) = "."
        fraction == IF hasPoint THEN Tail(afterInt) ELSE <<>>
        nFrac == LeadingDigits(fraction)
        magnitude == DigitsValue(body, nInt) * ONE
                        + (DigitsValue(fraction, nFrac) * ONE) \div IPow(10, nFrac)
    IN  IF nInt = 0 /\ nFrac = 0 THEN NaN
        ELSE IF negative THEN 0 - magnitude ELSE magnitude

ParticleTextFields == {"density", "speed", "wind_x", "wind_z"}

\* the four numeric texts: one of any shape, the others "1"
InitParticleText ==
    /\ InitUI
    /\ catCur = NULL /\ catPrev = NULL /\ catOut = NULL_NAME /\ catEdits = 0
    /\ \E field \in ParticleTextFields, t \in Texts(MaxTextLen) :
          fnIn = [f \in ParticleTextFields |-> IF f = field THEN t ELSE <<"1">>]
    /\ fnOut = NULL
    /\ SimIdle /\ TerrainIdle

\* buildParticleSettingsFromValues(density text, speed text, ...) as
\* collectParticleSettings calls it
BuildParticleSettings ==
    /\ fnOut = NULL
    /\ fnOut' = buildParticleSettingsFromValues(
                    parseFloat(fnIn.density), parseFloat(fnIn.speed), parseFloat(fnIn.wind_x),
                    parseFloat(fnIn.wind_z), ui["particle-color"], ui["weather-preset"],
                    currentParticleSize, currentParticleSize)
    /\ UNCHANGED <<uiVars, catCur, catPrev, catOut, catEdits, fnIn>>

NextParticleText == BuildParticleSettings

SpecParticleText == InitParticleText /\ [][NextParticleText]_vars

\* the text holds no decimal literal after its leading blanks and sign
NonNumeric(text) ==
    LET t == SkipBlanks(text)
        body == IF t # <<>> /\ Head(t) \in {"-", "+"} THEN Tail(t) ELSE t
    IN  \/ body = <<>>
        \/ Head(body) \notin Digits \cup {"."}
        \/ Head(body) = "." /\ (Len(body) = 1 \/ body[2] \notin Digits)

\* the text holds a decimal literal with a minus sign and a value below zero
NegativeNumber(text) ==
    /\ ~NonNumeric(text)
    /\ Head(SkipBlanks(text)) = "-"
    /\ \E i \in DOMAIN text : text[i] \in Digits \ {"0"} /\ \A j \in 1..(i - 1) : text[j] \in {" ", "-", ".", "0"}

\* C14: buildParticleSettingsFromValues yields a record for any texts: a
\* density that is non-numeric or negative becomes 0, a speed that is
\* non-numeric or negative becomes the default speed, a wind component that
\* is non-numeric becomes 0, and density, speed, wind_x and wind_z of the
\* record are never NaN.
C14_MalformedTextGetsDefaults ==
    fnOut # NULL =>
        /\ (NonNumeric(fnIn.density) \/ NegativeNumber(fnIn.density)) => fnOut.density = 0
        /\ (NonNumeric(fnIn.speed) \/ NegativeNumber(fnIn.speed)) =>
                fnOut.speed = DEFAULT_PARTICLE_SETTINGS.speed
        /\ NonNumeric(fnIn.wind_x) => fnOut.wind_x = 0
        /\ NonNumeric(fnIn.wind_z) => fnOut.wind_z = 0
        /\ \A f \in ParticleTextFields : fnOut[f] # NaN

\* a record built from a wind text that is no number
C14_Witness ==
    /\ fnOut # NULL
    /\ fnIn.wind_x = <<"-", ".", "x">>
    /\ fnOut.wind_x = 0
    /\ fnOut.density = ONE

---------------------------------------------------------------------------
(* sliderToValue and valueToSlider on their own, over a grid of the range   *)
(* of each registered slider                                                *)

SliderGrid == 40                 \* the range of a slider is cut into SliderGrid parts

SliderRange(id) == SLIDER_CONFIGS[id].max - SLIDER_CONFIGS[id].min

GridPoint(id, j) == SLIDER_CONFIGS[id].min + (SliderRange(id) * j) \div SliderGrid

InitSlider ==
    /\ InitUI
    /\ catCur = NULL /\ catPrev = NULL /\ catOut = NULL_NAME /\ catEdits = 0
    /\ \E id \in DOMAIN SLIDER_CONFIGS, j \in 0..SliderGrid : fnIn = [id |-> id, x |-> GridPoint(id, j)]
    /\ fnOut = NULL
    /\ SimIdle /\ TerrainIdle

\* x taken as a value: to the slider and back
RoundTripValue ==
    /\ fnOut = NULL
    /\ fnOut' = [from |-> "value",
                 there |-> valueToSlider(fnIn.id, fnIn.x),
                 back |-> sliderToValue(fnIn.id, valueToSlider(fnIn.id, fnIn.x))]
    /\ UNCHANGED <<uiVars, catCur, catPrev, catOut, catEdits, fnIn>>

\* x taken as a slider position: to the value and back
RoundTripSlider ==
    /\ fnOut = NULL
    /\ fnOut' = [from |-> "slider",
                 there |-> sliderToValue(fnIn.id, fnIn.x),
                 back |-> valueToSlider(fnIn.id, sliderToValue(fnIn.id, fnIn.x))]
    /\ UNCHANGED <<uiVars, catCur, catPrev, catOut, catEdits, fnIn>>

NextSlider == RoundTripValue \/ RoundTripSlider

SpecSlider == InitSlider /\ [][NextSlider]_vars

\* The arithmetic of the model rounds a normalized position to 1/R.  Through
\* the curve (exponent >= 1) that is at most 2/R of the range, plus one unit;
\* through the inverse curve it is at most (1/R)^(1/exponent) of the range.
CurveTolerance(id) == RDiv(SliderRange(id) * 2, R) + 1
InverseCurveTolerance(id) ==
    RDiv(SliderRange(id) * PowFP(1, SLIDER_CONFIGS[id].den, SLIDER_CONFIGS[id].num), R) + 1

---------------------------------------------------------------------------
(* Particle compute shader (utils.ts 317-448).  Floats are fixed-point      *)
(* integers with P units per 1.0; NaN is absorbing in arithmetic and makes  *)
(* every ordered comparison false.  The host side (uniform update, dispatch *)
(* and swap of the two buffers) follows the specification of the simulator. *)

P == 100                         \* units per 1.0 of a float of the shader

PoolSize == 2                    \* slots of each particle buffer
MaxSimSteps == 4                 \* simulation steps per run

Slots == 0..(PoolSize - 1)

\* global_invocation_id.x of the invocations of one dispatch: whole
\* workgroups, so more invocations than slots
Invocations == 0..PoolSize

IsNaN(x) == x = NaN
FAdd(a, b) == IF IsNaN(a) \/ IsNaN(b) THEN NaN ELSE a + b
FSub(a, b) == IF IsNaN(a) \/ IsNaN(b) THEN NaN ELSE a - b
FMul(a, b) == IF IsNaN(a) \/ IsNaN(b) THEN NaN ELSE RDiv(a * b, P)
FLess(a, b) == ~IsNaN(a) /\ ~IsNaN(b) /\ a < b
FLessEq(a, b) == ~IsNaN(a) /\ ~IsNaN(b) /\ a <= b
Fract(x) == IF IsNaN(x) THEN NaN ELSE x % P

\* fn hash(p: vec3f) -> f32
hash(p) ==
    IF \E i \in 1..3 : IsNaN(p[i]) THEN NaN
    ELSE LET a == [i \in 1..3 |-> Fract(RDiv(p[i] * 1031, 10000))]
             d == RDiv(a[1] * (a[2] + 3333) + a[2] * (a[3] + 3333) + a[3] * (a[1] + 3333), P)
         IN  Fract(RDiv((a[1] + d + a[2] + d) * (a[3] + d), P))

\* fn hash2(p: vec2f) -> vec2f
hash2(p) ==
    IF IsNaN(p[1]) \/ IsNaN(p[2]) THEN <<NaN, NaN>>
    ELSE LET p2x == RDiv(p[1] * 32, P) + 37
             p2y == RDiv(p[2] * 37, P) + 32
             f == Fract(RDiv(RDiv(p2x * p2y, P) * (p2x + p2y), P))
         IN  <<Fract(RDiv(16 * 32 * f, P)), Fract(RDiv(16 * 37 * f, P))>>

\* cos and sin of rand1 * 6.28318, on twelve directions of the circle whose
\* coordinates are exact in fixed point
Direction(rand1) == IF IsNaN(rand1) THEN NaN ELSE (rand1 * 12) \div P
cos(direction) ==
    IF IsNaN(direction) THEN NaN
    ELSE <<100, 80, 60, 0, 0 - 60, 0 - 80, 0 - 100, 0 - 80, 0 - 60, 0, 60, 80>>[(direction % 12) + 1]
sin(direction) == IF IsNaN(direction) THEN NaN ELSE cos(direction + 9)

\* sqrt(x)
sqrt(x) == IF IsNaN(x) \/ x < 0 THEN NaN ELSE IRoot(2, x * P)

needs_respawn_NoNaNCheck(s, p) ==
    LET dx == FSub(p.position[1], s.camera_pos[1])
        dz == FSub(p.position[3], s.camera_pos[3])
        limit == (s.spawn_radius * 3) \div 2
    IN  \/ FLessEq(p.life, 0)
        \/ FLess(p.position[2], s.despawn_height)
        \/ (~IsNaN(dx) /\ ~IsNaN(dz) /\ dx * dx + dz * dz > limit * limit)

needs_respawn_IgnoresLife(s, p) ==
    LET dx == FSub(p.position[1], s.camera_pos[1])
        dz == FSub(p.position[3], s.camera_pos[3])
        limit == (s.spawn_radius * 3) \div 2
        has_nan == \E i \in 1..3 : IsNaN(p.position[i]) \/ IsNaN(p.velocity[i])
    IN  \/ FLess(p.position[2], s.despawn_height)
        \/ (~IsNaN(dx) /\ ~IsNaN(dz) /\ dx * dx + dz * dz > limit * limit)
        \/ has_nan

\* let needs_respawn = ... for the particle p after integration
needs_respawn(s, p) ==
    LET dx == FSub(p.position[1], s.camera_pos[1])
        dz == FSub(p.position[3], s.camera_pos[3])
        limit == (s.spawn_radius * 3) \div 2
        has_nan == \E i \in 1..3 : IsNaN(p.position[i]) \/ IsNaN(p.velocity[i])
    IN  \/ FLessEq(p.life, 0)
        \/ FLess(p.position[2], s.despawn_height)
        \/ (~IsNaN(dx) /\ ~IsNaN(dz) /\ dx * dx + dz * dz > limit * limit)
        \/ has_nan

\* the respawn branch of simulate for the particle p of slot idx
respawn(s, p, idx) ==
    LET stable_time == IF IsNaN(s.time) THEN NaN ELSE s.time % (1000 * P)
        seed == <<idx * P, stable_time, idx * 70>>
        rand1 == hash(seed)
        rand2 == hash(<<FAdd(seed[1], 1 * P), FAdd(seed[2], 2 * P), FAdd(seed[3], 3 * P)>>)
        rand3 == hash(<<FAdd(seed[1], 4 * P), FAdd(seed[2], 5 * P), FAdd(seed[3], 6 * P)>>)
        angle == Direction(rand1)
        dist == FMul(sqrt(rand2), s.spawn_radius)
        drift == hash2(<<FAdd(idx * P, s.time), rand1>>)
    IN  [position |-> <<FAdd(s.camera_pos[1], FMul(cos(angle), dist)),
                        FAdd(s.camera_pos[2], FMul(s.spawn_height, rand3)),
                        FAdd(s.camera_pos[3], FMul(sin(angle), dist))>>,
         velocity |->
            IF s.particle_type = 0
            THEN <<FMul(s.wind_x, 50), FSub(0, s.speed), FMul(s.wind_z, 50)>>
            ELSE <<FAdd(FMul(s.wind_x, 30), FMul(FSub(drift[1], 50), 2 * P)),
                   FMul(FSub(0, s.speed), 30),
                   FAdd(FMul(s.wind_z, 30), FMul(FSub(drift[2], 50), 2 * P))>>,
         life |-> FAdd(3 * P, FMul(rand3, 5 * P)),
         size |-> p.size]

\* the else branch: wind on the particle that stays
physics(s, p) ==
    LET gain == IF s.particle_type = 0 THEN 10 ELSE 5
        vx == FAdd(p.velocity[1], FMul(FMul(s.wind_x, s.delta_time), gain))
        vz == FAdd(p.velocity[3], FMul(FMul(s.wind_z, s.delta_time), gain))
    IN  [p EXCEPT !.velocity =
            IF s.particle_type = 0 THEN <<vx, p.velocity[2], vz>>
            ELSE <<IF IsNaN(vx) THEN NaN ELSE RDiv(vx * 995, 1000), p.velocity[2],
                   IF IsNaN(vz) THEN NaN ELSE RDiv(vz * 995, 1000)>>]

\* var p = particles_in[idx] after "Update position" and "Decrease life"
integrated(s, p) ==
    [p EXCEPT !.position = [i \in 1..3 |-> FAdd(p.position[i], FMul(p.velocity[i], s.delta_time))],
              !.life = FSub(p.life, s.delta_time)]

simulated_OldLife(s, p, idx) ==
    IF needs_respawn(s, integrated(s, p))
    THEN [respawn(s, integrated(s, p), idx) EXCEPT !.life = integrated(s, p).life]
    ELSE physics(s, integrated(s, p))

\* the value simulate writes to particles_out[idx] for the input particle p
simulated(s, p, idx) ==
    IF needs_respawn(s, integrated(s, p))
    THEN respawn(s, integrated(s, p), idx)
    ELSE physics(s, integrated(s, p))

\* history kept for the properties: slots respawned in the running step and
\* ever, and for each slot the life it got at its last respawn (or at the
\* start) and the step that gave it, the steps it has stayed since, and
\* the steps it had stayed when it was last respawned
Noted(h, idx, did, life) ==
    IF did
    THEN [h EXCEPT !.respawned = @ \cup {idx}, !.ever = @ \cup {idx},
                   !.quota[idx] = life, !.born[idx] = h.steps,
                   !.waited[idx] = h.age[idx] + 1, !.age[idx] = 0]
    ELSE [h EXCEPT !.age[idx] = @ + 1]

simulate_WritesEverySlot(idx) ==
    /\ idx \in pending
    /\ pending' = pending \ {idx}
    /\ IF idx \notin Slots
       THEN UNCHANGED <<particles_out, simHist>>
       ELSE LET did == needs_respawn(sim, integrated(sim, particles_in[idx]))
                out == simulated(sim, particles_in[idx], idx)
            IN  /\ particles_out' = [particles_out EXCEPT ![idx] = out]
                /\ simHist' = Noted(simHist, idx, did, out.life)
    /\ UNCHANGED <<sim, particles_in>>
    /\ UNCHANGED <<pageVars, catCur, catPrev, catOut, catEdits, fnVars, terrainVars>>

simulate_ReadsLeftNeighbour(idx) ==
    /\ idx \in pending
    /\ pending' = pending \ {idx}
    /\ IF idx >= sim.particle_count
       THEN UNCHANGED <<particles_out, simHist>>
       ELSE LET from == IF idx > 0 THEN particles_out[idx - 1] ELSE particles_in[idx]
                did == needs_respawn(sim, integrated(sim, from))
                out == simulated(sim, from, idx)
            IN  /\ particles_out' = [particles_out EXCEPT ![idx] = out]
                /\ simHist' = Noted(simHist, idx, did, out.life)
    /\ UNCHANGED <<sim, particles_in>>
    /\ UNCHANGED <<pageVars, catCur, catPrev, catOut, catEdits, fnVars, terrainVars>>

\* fn simulate(global_id), one invocation
simulate(idx) ==
    /\ idx \in pending
    /\ pending' = pending \ {idx}
    /\ IF idx >= sim.particle_count
       THEN UNCHANGED <<particles_out, simHist>>
       ELSE LET did == needs_respawn(sim, integrated(sim, particles_in[idx]))
                out == simulated(sim, particles_in[idx], idx)
            IN  /\ particles_out' = [particles_out EXCEPT ![idx] = out]
                /\ simHist' = Noted(simHist, idx, did, out.life)
    /\ UNCHANGED <<sim, particles_in>>
    /\ UNCHANGED <<pageVars, catCur, catPrev, catOut, catEdits, fnVars, terrainVars>>

\* the host starts the next step: after the first step the two buffers change
\* places, the time advances by delta_time, every invocation is to run
Dispatch ==
    /\ pending = {}
    /\ simHist.steps < MaxSimSteps
    /\ IF simHist.steps = 0
       THEN UNCHANGED <<particles_in, particles_out>>
       ELSE particles_in' = particles_out /\ particles_out' = particles_in
    /\ sim' = [sim EXCEPT !.time = FAdd(@, sim.delta_time)]
    /\ pending' = Invocations
    /\ simHist' = [simHist EXCEPT !.steps = @ + 1, !.respawned = {}]
    /\ UNCHANGED <<pageVars, catCur, catPrev, catOut, catEdits, fnVars, terrainVars>>

\* particles the buffers hold at the start: falling, about to leave the
\* spawn disc, corrupted, about to fall below the despawn height
InitialParticles ==
    {[position |-> <<0, 100, 0>>, velocity |-> <<0, 0 - 100, 0>>, life |-> 150, size |-> 50],
     [position |-> <<0, 0 - 450, 0>>, velocity |-> <<0, 0 - 100, 0>>, life |-> 300, size |-> 50],
     [position |-> <<250, 100, 0>>, velocity |-> <<100, 0, 0>>, life |-> 300, size |-> 50],
     [position |-> <<NaN, 100, 0>>, velocity |-> <<0, 0 - 100, 0>>, life |-> 300, size |-> 50]}

InitialSimParams ==
    {[delta_time |-> dt, time |-> t0, camera_pos |-> <<0, 200, 0>>, wind_x |-> 100, wind_z |-> 0,
      spawn_height |-> 300, spawn_radius |-> 200, despawn_height |-> 0 - 500,
      particle_type |-> ty, speed |-> 100, particle_count |-> n] :
        dt \in {100, 200}, t0 \in {0, 999 * P}, ty \in {0, 1}, n \in 0..PoolSize}

InitParticles ==
    /\ InitUI
    /\ catCur = NULL /\ catPrev = NULL /\ catOut = NULL_NAME /\ catEdits = 0
    /\ fnIn = NULL /\ fnOut = NULL /\ TerrainIdle
    /\ sim \in InitialSimParams
    /\ particles_in \in [Slots -> InitialParticles]
    /\ particles_out = particles_in
    /\ pending = {}
    /\ simHist = [steps |-> 0, respawned |-> {}, ever |-> {},
                  quota |-> [i \in Slots |-> particles_in[i].life], age |-> [i \in Slots |-> 0],
                  waited |-> [i \in Slots |-> 0], born |-> [i \in Slots |-> 0]]

NextParticles ==
    \/ Dispatch
    \/ \E idx \in Invocations : simulate(idx)

SpecParticles == InitParticles /\ [][NextParticles]_vars

\* invocation idx of the running dispatch returns: the step of simulate(idx),
\* told by the one variable every such step changes
Returns(idx) == idx \in pending /\ pending' = pending \ {idx}

\* the host keeps stepping, and every invocation of a dispatch returns
SpecParticlesLive ==
    /\ SpecParticles
    /\ WF_vars(Dispatch)
    /\ \A idx \in Invocations : WF_pending(Returns(idx))

Active(i) == i \in Slots /\ i < sim.particle_count

\* the steps finished for slot i since its life was simHist.quota[i]
StepsStayed(i) == simHist.steps - simHist.born[i]

\* C16 as stated: under repeated steps with delta_time > 0 every particle of
\* the pool is eventually respawned at least once, and a particle whose
\* remaining life is L has been respawned once more than L / delta_time steps
\* have run: a slot whose invocation of the step has returned and that has
\* stayed k steps since its life was L has k * delta_time < L.
C16_EveryPoolParticleRespawned ==
    /\ [](\A i \in Slots : i \notin pending => StepsStayed(i) * sim.delta_time < simHist.quota[i])
    /\ <>(\A i \in Slots : i \in simHist.ever)

\* C16, amended: the same for every particle of the pool whose index is
\* below particle_count: it is eventually respawned at least once, and when
\* it has stayed k steps since its life was L then k * delta_time < L.
C16_ActiveParticlesRespawned ==
    /\ [](\A i \in Slots :
            (Active(i) /\ i \notin pending) => StepsStayed(i) * sim.delta_time < simHist.quota[i])
    /\ <>(\A i \in Slots : Active(i) => i \in simHist.ever)

\* every slot is active and has been respawned, one of them by the end of
\* its life after staying for two steps or more
C16_Witness ==
    /\ sim.particle_count = PoolSize
    /\ pending = {}
    /\ simHist.ever = Slots
    /\ \E i \in Slots : simHist.waited[i] >= 2

\* C17: right after a step that respawned a particle, the life of that
\* particle is positive, from 3 up to 8, its horizontal distance from the
\* camera is at most spawn_radius, and its height lies between the camera
\* height and the camera height plus spawn_height.
C17_RespawnedInSpawnVolume ==
    \A i \in simHist.respawned :
        LET p == particles_out[i]
            dx == p.position[1] - sim.camera_pos[1]
            dz == p.position[3] - sim.camera_pos[3]
        IN  /\ \A k \in 1..3 : ~IsNaN(p.position[k])
            /\ ~IsNaN(p.life) /\ p.life > 0
            /\ 3 * P <= p.life /\ p.life <= 8 * P
            /\ dx * dx + dz * dz <= sim.spawn_radius * sim.spawn_radius
            /\ sim.camera_pos[2] <= p.position[2]
            /\ p.position[2] <= sim.camera_pos[2] + sim.spawn_height

\* a step has respawned a particle away from the camera axis and above the
\* camera height
C17_Witness ==
    /\ pending = {}
    /\ \E i \in simHist.respawned :
        /\ particles_out[i].position[1] # sim.camera_pos[1]
        /\ particles_out[i].position[2] > sim.camera_pos[2]
        /\ particles_out[i].life > 3 * P

\* C18: an invocation of a step leaves the buffer it reads unchanged and
\* writes no slot but its own; the slot of every particle whose invocation
\* has run holds the function of the input slot of the same index, the
\* shared parameters and the index, so the output buffer of a finished step
\* is the same whatever the order of the invocations.
C18_SlotsIndependent ==
    /\ [](simHist.steps > 0 =>
            \A i \in Slots : (Active(i) /\ i \notin pending) =>
                particles_out[i] = simulated(sim, particles_in[i], i))
    /\ [][pending # {} =>
            /\ particles_in' = particles_in
            /\ \A i \in Slots : i \notin (pending \ pending') => particles_out'[i] = particles_out[i]]_vars

\* a second step has finished on a full pool; the two slots started from
\* different particles and the step has changed both
C18_Witness ==
    /\ simHist.steps >= 2
    /\ pending = {}
    /\ sim.particle_count = PoolSize
    /\ particles_in[0] # particles_in[1]
    /\ \A i \in Slots : particles_out[i] # particles_in[i]


-----------------------------------------------------------------------------
(* Main script: what an edit of the panel leaves alone *)

ColourInputs ==
    {"color-abyss", "color-deep-water", "color-shallow-water", "color-sand", "color-grass",
     "color-rock", "color-snow", "color-sky", "color-sky-top", "color-sky-horizon",
     "star-color", "sun-color", "moon-color", "particle-color"}

SkyInputs == {"star-count", "sun-count", "moon-count", "star-color", "sun-color", "moon-color"}

ParticleInputs == {"particle-density", "particle-speed", "wind-x", "wind-z", "particle-color"}

\* the inputs the step may have changed are ids, and the control the user moved
OnlyInputs(ids, control) == \A id \in InputIds \ (ids \cup {control}) : ui'[id] = ui[id]

\* the step was a change of a dropdown or a move of a slider and has kept
\* the store, the last-applied settings, the identity and the snapshot, and
\* has written only the inputs of its kind
EditKeepsSettings ==
    /\ calls' = <<>>
    /\ UNCHANGED <<store, lastAppliedSettings, lastAppliedSkySettings,
                   lastAppliedParticleSettings, currentPresetId, savedCustomSettings>>
    /\ lastOp'.op = "SliderInput" => OnlyInputs({}, lastOp'.id)
    /\ lastOp'.op = "ColorThemeChange" => OnlyInputs(ColourInputs, "color-theme")
    /\ lastOp'.op = "SkyPresetChange" => OnlyInputs(SkyInputs, "sky-preset")
    /\ lastOp'.op = "WeatherPresetChange" => OnlyInputs(ParticleInputs, "weather-preset")

PanelEdits == {"SliderInput", "ColorThemeChange", "SkyPresetChange", "WeatherPresetChange"}

\* C20 as stated: a change of the colour-theme, sky-preset or weather-preset
\* dropdown and a move of a slider modify values of UI inputs only: the
\* store, the last-applied settings, the identity and the snapshot are
\* unchanged, a colour theme changes only colour inputs, a sky preset only
\* the sky counts and sky colours, a weather preset only the particle
\* inputs, and nothing that is not an input of the panel changes.
C20_EditsChangeInputsOnly ==
    [][lastOp'.op \in PanelEdits => (EditKeepsSettings /\ UNCHANGED currentParticleSize)]_vars

\* C20, amended: as stated, except that the weather-preset dropdown also
\* sets the script's current particle size (currentParticleSize), which is
\* not an input of the panel; the other edits leave it unchanged.
C20_EditsChangeInputsAndParticleSize ==
    [][lastOp'.op \in PanelEdits =>
        /\ EditKeepsSettings
        /\ lastOp'.op # "WeatherPresetChange" => UNCHANGED currentParticleSize]_vars

\* the weather preset was changed after another edit: the particle inputs
\* and the current particle size differ from what was last applied, which
\* is still what the store holds
C20_Witness ==
    /\ lastOp.op = "WeatherPresetChange"
    /\ steps >= 2
    /\ ui["wind-x"] = Num(100)
    /\ currentParticleSize # lastAppliedParticleSettings.particle_size
    /\ lastAppliedParticleSettings.wind_x # Num(100)
    /\ store = InitialStore

-----------------------------------------------------------------------------
(* Terrain shader: compute_height *)

CHUNK_SIZE == 64                 \* vertices per chunk edge
CHUNK_WORLD_SIZE == 256          \* world units per chunk
T == 128                         \* units per 1.0 of a float of the terrain shader
MaxDispatches == 2               \* compute_height dispatches per run

\* x * (n / d), rounded down, without the product x * n
MulFrac(x, n, d) == (x \div d) * n + ((x % d) * n) \div d

Max(a, b) == IF a > b THEN a ELSE b
Min(a, b) == IF a < b THEN a ELSE b

\* fn permute3, one component; the argument is a whole number
permute3(x) == ((x * 34 + 1) * x) % 289

\* x * C.y and x * C.x of simplex_noise_2d, to nine decimals
TimesCy(x) == MulFrac(x, 366, 1000) + MulFrac(x, 25, 1000000) + MulFrac(x \div 1000, 404, 1000000)
TimesCx(x) == MulFrac(x, 211, 1000) + MulFrac(x, 324, 1000000) + MulFrac(x \div 1000, 865, 1000000)

\* m *= m; m *= m, of m = max(0.5 - r, 0), for one corner at squared distance r
Squared(m) == (m * m) \div (T * T)
m4(r) == Squared(Squared(Max((T * T) \div 2 - r, 0)))

\* let x = 2.0 * fract(p * C.www) - 1.0; h; a0 (ox = floor(x + 0.5)), one component
gradient_x(p) == (2 * (p % 41) * T) \div 41 - T
gradient_h(x) == Abs(x) - T \div 2
gradient_a0(x) == x - ((x + T \div 2) \div T) * T

\* 1.79284291400159 - 0.85373472095314 * (a0 * a0 + h * h), one component
normalise(x) ==
    MulFrac(T, 1793, 1000)
    - MulFrac((gradient_a0(x) * gradient_a0(x) + gradient_h(x) * gradient_h(x)) \div T, 854, 1000)

\* m * g of one corner: falloff m, gradient from x, offset (dx, dy) to the corner
corner_mg(m, x, dx, dy) ==
    ((m * normalise(x)) \div T) * ((gradient_a0(x) * dx + gradient_h(x) * dy) \div T)

corner(p, dx, dy) == corner_mg(m4(dx * dx + dy * dy), gradient_x(p), dx, dy)

\* 130.0 * dot(m, g) over the corners x0, x12.xy, x12.zw of the cell i (mod 289)
simplex_corners(i, i1, x0) ==
    (130 * (corner(permute3(permute3(i[2]) + i[1]), x0[1], x0[2])
            + corner(permute3(permute3(i[2] + i1[2]) + i[1] + i1[1]),
                     x0[1] + 27 - i1[1] * T, x0[2] + 27 - i1[2] * T)
            + corner(permute3(permute3(i[2] + 1) + i[1] + 1), x0[1] - 74, x0[2] - 74)))
    \div (T * T)

\* var i1 = select(vec2f(0.0, 1.0), vec2f(1.0, 0.0), x0.x > x0.y)
simplex_x0(i, x0) ==
    simplex_corners(<<i[1] % 289, i[2] % 289>>, IF x0[1] > x0[2] THEN <<1, 0>> ELSE <<0, 1>>, x0)

\* let x0 = v - i + dot(i, C.xx), t the dot product
simplex_cell(v, i, t) == simplex_x0(i, <<v[1] - i[1] * T + t, v[2] - i[2] * T + t>>)

\* var i = floor(v + dot(v, C.yy)), s the dot product
simplex_skew(v, i) == simplex_cell(v, i, TimesCx((i[1] + i[2]) * T))

\* fn simplex_noise_2d(v: vec2f) -> f32
simplex_noise_2d(v) ==
    simplex_skew(v, <<(v[1] + TimesCy(v[1] + v[2])) \div T, (v[2] + TimesCy(v[1] + v[2])) \div T>>)

\* the loop of fbm and of fbm_rough from octave i on
RECURSIVE fbm_from(_, _, _, _, _, _)
fbm_from(pos, octaves, roughness, i, amplitude, frequency) ==
    IF i >= octaves THEN 0
    ELSE (amplitude * simplex_noise_2d(<<pos[1] * frequency, pos[2] * frequency>>)) \div T
         + fbm_from(pos, octaves, roughness, i + 1, (amplitude * roughness) \div T, frequency * 2)

\* fn fbm(p: vec2f, octaves: i32) -> f32
fbm(p, octaves) == fbm_from(p, octaves, T \div 2, 0, T \div 2, 1)

\* fn fbm_rough(p: vec2f, octaves: i32, roughness: f32) -> f32
fbm_rough(p, octaves, roughness) == fbm_from(p, octaves, roughness, 0, T \div 2, 1)

\* fn domain_warp(p: vec2f, warp_strength: f32) -> vec2f
domain_warp(p, warp_strength) ==
    <<p[1] + (fbm(p, 3) * warp_strength) \div T,
      p[2] + (fbm(<<p[1] + 666, p[2] + 166>>, 3) * warp_strength) \div T>>

\* smoothstep(low, high, x)
smoothstep(low, high, x) ==
    LET c == Max(0, Min(T, ((x - low) * T) \div (high - low)))
    IN  (((c * c) \div T) * (3 * T - 2 * c)) \div T

\* pow(x, y) for the exponents of the shader, written [whole, halves]; the
\* power of a negative base is NaN
pow(x, whole, halves) ==
    IF IsNaN(x) \/ x < 0 THEN NaN
    ELSE LET x2 == (x * x) \div T
         IN  IF whole = 3 THEN (x2 * x) \div T
             ELSE IF halves = 1 THEN (x2 * IRoot(2, x * T)) \div T
             ELSE x2

\* p * (n / d), both components
Scaled(p, n, d) == <<MulFrac(p[1], n, d), MulFrac(p[2], n, d)>>

\* height += term, height -= term, and term * variance
Plus(a, b) == IF IsNaN(a) \/ IsNaN(b) THEN NaN ELSE a + b
Minus(a, b) == IF IsNaN(a) \/ IsNaN(b) THEN NaN ELSE a - b
Times(a, b) == IF IsNaN(a) \/ IsNaN(b) THEN NaN ELSE (a * b) \div T

\* let world_pos = compute_params.chunk_offset + local_uv * CHUNK_WORLD_SIZE
world_pos(c, id) ==
    <<c.chunk_offset[1] + (id[1] * CHUNK_WORLD_SIZE * T) \div (CHUNK_SIZE - 1),
      c.chunk_offset[2] + (id[2] * CHUNK_WORLD_SIZE * T) \div (CHUNK_SIZE - 1)>>

seed_offset(c) == <<MulFrac(c.seed * T, 1, 10), MulFrac(c.seed * T, 137, 1000)>>

noise_pos(c, id) ==
    <<((world_pos(c, id)[1] + seed_offset(c)[1]) * c.terrain_scale) \div T,
      ((world_pos(c, id)[2] + seed_offset(c)[2]) * c.terrain_scale) \div T>>

\* fbm_rough(pos * (n / d), octaves, roughness) * height_scale
scaled_fbm(c, pos, n, d, octaves) ==
    (fbm_rough(Scaled(pos, n, d), octaves, c.roughness) * c.height_scale) \div T

\* 1.0 - abs(fbm_rough(pos * (n / d), octaves, roughness))
ridge_of(c, pos, n, d, octaves) == T - Abs(fbm_rough(Scaled(pos, n, d), octaves, c.roughness))

\* ridge * ridge * height_scale * 0.3 * variance
ridges(c, ridge) ==
    (MulFrac((((ridge * ridge) \div T) * c.height_scale) \div T, 3, 10) * c.height_variance) \div T

\* cases 0u and 5u, on pos = noise_pos and pos = blocky_pos
standard(c, pos) ==
    scaled_fbm(c, domain_warp(Scaled(pos, 1, 2), c.warp_strength), 3, 10, c.octaves)
    + (MulFrac(scaled_fbm(c, pos, 2, 1, Max(c.octaves - 2, 2)), 15, 100) * c.height_variance) \div T
    + ridges(c, ridge_of(c, pos, 4, 5, Max(c.octaves - 2, 2)))

\* case 1u
ridged(c, pos, warped_pos) ==
    Plus(Plus(Plus(
        MulFrac(scaled_fbm(c, warped_pos, 1, 5, c.octaves), 3, 10),
        Times(Times(pow(ridge_of(c, warped_pos, 3, 5, c.octaves), 2, 1),
                    MulFrac(c.height_scale, 6, 10)), c.height_variance)),
        Times(Times(pow(ridge_of(c, warped_pos, 1, 1, c.octaves - 1), 2, 0),
                    MulFrac(c.height_scale, 3, 10)), c.height_variance)),
        MulFrac(scaled_fbm(c, pos, 3, 1, 4), 8, 100))

\* case 2u, island_mask = smoothstep(-0.1, 0.3, island_noise)
islands_masked(c, pos, base_height, island_mask) ==
    (((base_height * island_mask) \div T - MulFrac(T, 3, 10)) * c.height_scale) \div T
    + (((MulFrac(scaled_fbm(c, pos, 2, 1, 4), 1, 10) * c.height_variance) \div T) * island_mask) \div T

islands(c, pos, warped_pos) ==
    islands_masked(c, pos,
                   fbm_rough(Scaled(warped_pos, 3, 10), c.octaves, c.roughness),
                   smoothstep(0 - MulFrac(T, 1, 10), MulFrac(T, 3, 10),
                              fbm_rough(Scaled(pos, 15, 100), 4, T \div 2)))

\* case 3u
valleys(c, pos, warped_pos) ==
    Plus(Minus(Minus(
        MulFrac(scaled_fbm(c, warped_pos, 3, 10, c.octaves), 1, 2),
        Times(Times(pow(T - Abs(fbm_rough(Scaled(warped_pos, 1, 2), c.octaves - 1, c.roughness)), 3, 0),
                    MulFrac(c.height_scale, 6, 10)), c.height_variance)),
        Times(Times(pow(T - Abs(fbm_rough(<<MulFrac(warped_pos[1], 4, 5) + 100 * T,
                                            MulFrac(warped_pos[2], 4, 5) + 100 * T>>,
                                          c.octaves - 2, c.roughness)), 2, 0),
                    MulFrac(c.height_scale, 3, 10)), c.height_variance)),
        MulFrac(scaled_fbm(c, pos, 3, 1, 3), 5, 100))

\* case 4u, step_size = height_scale / terrace_count
terraces(c, pos, raw_height, step_size) ==
    (((raw_height * T) \div step_size + T \div 2) \div T) * step_size
    + MulFrac((fbm_rough(Scaled(pos, 4, 1), 3, c.roughness) * step_size) \div T, 2, 10)

terraced(c, pos, warped_pos) ==
    terraces(c, pos, scaled_fbm(c, warped_pos, 3, 10, c.octaves),
             (c.height_scale * T) \div (6 * T + 6 * c.height_variance))

\* the switch of compute_height on the position pos = noise_pos
height_at(c, pos) ==
    CASE c.pattern_type = 0 -> standard(c, pos)
      [] c.pattern_type = 1 ->
            ridged(c, pos, domain_warp(Scaled(pos, 1, 2), MulFrac(c.warp_strength, 3, 2)))
      [] c.pattern_type = 2 -> islands(c, pos, domain_warp(Scaled(pos, 1, 2), c.warp_strength))
      [] c.pattern_type = 3 -> valleys(c, pos, domain_warp(Scaled(pos, 1, 2), c.warp_strength))
      [] c.pattern_type = 4 -> terraced(c, pos, domain_warp(Scaled(pos, 1, 2), c.warp_strength))
      [] c.pattern_type = 5 -> standard(c, <<pos[1] + 1000000 * T, pos[2] + 1337000 * T>>)
      [] OTHER -> scaled_fbm(c, domain_warp(Scaled(pos, 1, 2), c.warp_strength), 3, 10, c.octaves)

\* the height compute_height computes for the invocation id under params c
height(c, id) == height_at(c, noise_pos(c, id))

\* global_invocation_id.xy of the invocations followed: the first and the
\* last vertex of the chunk, and an invocation beyond the chunk edge
CellSamples == {<<0, 0>>, <<CHUNK_SIZE - 1, CHUNK_SIZE - 1>>, <<CHUNK_SIZE, 0>>}

SampleComputeParams ==
    {[chunk_offset |-> <<0, 0>>, terrain_scale |-> 2, height_scale |-> 50 * T, octaves |-> 4,
      warp_strength |-> T \div 2, height_variance |-> v, roughness |-> T \div 2,
      pattern_type |-> pt, seed |-> sd] :
        v \in {0, T}, pt \in {0, 1, 2, 3, 4, 5, 7}, sd \in {0, 42}}

compute_height_NoEdgeCheck(id) ==
    /\ id \in cells
    /\ cells' = cells \ {id}
    /\ LET index == id[2] * CHUNK_SIZE + id[1]
           written == height(compute_params, id)
       IN  IF index \notin DOMAIN height_buffer
           THEN UNCHANGED <<height_buffer, heightHist>>
           ELSE /\ height_buffer' = [height_buffer EXCEPT ![index] = written]
                /\ heightHist' = [heightHist EXCEPT !.log = @ \cup
                        {[params |-> compute_params, id |-> id, height |-> written,
                          over |-> height_buffer[index], first |-> cells = CellSamples]}]
    /\ UNCHANGED compute_params
    /\ UNCHANGED <<pageVars, catCur, catPrev, catOut, catEdits, fnVars, simVars>>

compute_height_Accumulates(id) ==
    /\ id \in cells
    /\ cells' = cells \ {id}
    /\ IF id[1] >= CHUNK_SIZE \/ id[2] >= CHUNK_SIZE
       THEN UNCHANGED <<height_buffer, heightHist>>
       ELSE LET index == id[2] * CHUNK_SIZE + id[1]
                written == Plus(height_buffer[index], height(compute_params, id))
            IN  /\ height_buffer' = [height_buffer EXCEPT ![index] = written]
                /\ heightHist' = [heightHist EXCEPT !.log = @ \cup
                        {[params |-> compute_params, id |-> id, height |-> written,
                          over |-> height_buffer[index], first |-> cells = CellSamples]}]
    /\ UNCHANGED compute_params
    /\ UNCHANGED <<pageVars, catCur, catPrev, catOut, catEdits, fnVars, simVars>>

\* fn compute_height(id), one invocation
compute_height(id) ==
    /\ id \in cells
    /\ cells' = cells \ {id}
    /\ IF id[1] >= CHUNK_SIZE \/ id[2] >= CHUNK_SIZE
       THEN UNCHANGED <<height_buffer, heightHist>>
       ELSE LET index == id[2] * CHUNK_SIZE + id[1]
                written == height(compute_params, id)
            IN  /\ height_buffer' = [height_buffer EXCEPT ![index] = written]
                /\ heightHist' = [heightHist EXCEPT !.log = @ \cup
                        {[params |-> compute_params, id |-> id, height |-> written,
                          over |-> height_buffer[index], first |-> cells = CellSamples]}]
    /\ UNCHANGED compute_params
    /\ UNCHANGED <<pageVars, catCur, catPrev, catOut, catEdits, fnVars, simVars>>

\* the host dispatches compute_height over the chunk, again with the
\* parameters it has written
DispatchComputeHeight ==
    /\ cells = {}
    /\ heightHist.runs < MaxDispatches
    /\ cells' = CellSamples
    /\ heightHist' = [heightHist EXCEPT !.runs = @ + 1]
    /\ UNCHANGED <<compute_params, height_buffer>>
    /\ UNCHANGED <<pageVars, catCur, catPrev, catOut, catEdits, fnVars, simVars>>

InitHeight ==
    /\ InitUI
    /\ catCur = NULL /\ catPrev = NULL /\ catOut = NULL_NAME /\ catEdits = 0
    /\ fnIn = NULL /\ fnOut = NULL /\ SimIdle
    /\ compute_params \in SampleComputeParams
    /\ height_buffer \in {[i \in 0..(CHUNK_SIZE * CHUNK_SIZE - 1) |-> fill] : fill \in {0, 7 * T}}
    /\ cells = {}
    /\ heightHist = [runs |-> 0, log |-> {}]

NextHeight ==
    \/ DispatchComputeHeight
    \/ \E id \in CellSamples : compute_height(id)

SpecHeight == InitHeight /\ [][NextHeight]_vars

\* C19: compute_height is deterministic: two invocations with the same grid
\* cell and the same parameters (chunk offset, seed, pattern_type and every
\* scalar) write the same height, whatever the height buffer held before and
\* whichever invocations of other cells ran before them.
C19_HeightDeterministic ==
    \A a \in heightHist.log : \A b \in heightHist.log :
        (a.params = b.params /\ a.id = b.id) => a.height = b.height

\* two invocations of the same cell under the same parameters have written
\* over different earlier contents, one as the first invocation of its
\* dispatch and one after invocations of other cells
C19_Witness ==
    \E a \in heightHist.log : \E b \in heightHist.log :
        /\ a.params = b.params /\ a.id = b.id
        /\ a.over # b.over
        /\ a.first # b.first
        /\ a.height # 0

---------------------------------------------------------------------------
(* Main script: the identity after Apply, and handlers that fail *)

\* the two stores hold the same settings within the comparison tolerances,
\* seeds included
StoresMatch(a, b) ==
    /\ TerrainMatches(a.terrain, b.terrain)
    /\ TerrainRestMatches(a.terrain, b.terrain)
    /\ a.terrain.seed = b.terrain.seed
    /\ SkyMatches(a.sky, b.sky)
    /\ a.sky.seed = b.sky.seed
    /\ ParticlesMatch(a.particles, b.particles)

\* C21: after an Apply click that changes a terrain, sky or particle setting
\* held in the store (by the comparison tolerance or more) the identity is
\* 'custom'; after an Apply click that changes nothing in the store the
\* identity is the one before the click.
C21_ApplyMarksCustom ==
    [][lastOp'.op = "Apply" =>
        /\ ~StoresMatch(store', store) => currentPresetId' = "custom"
        /\ store' = store => currentPresetId' = currentPresetId]_vars


\* each last-applied copy equals, within the comparison tolerances, what the
\* store holds for its category
LastAppliedMirrorsStore ==
    /\ TerrainMatches(lastAppliedSettings, store.terrain)
    /\ TerrainRestMatches(lastAppliedSettings, store.terrain)
    /\ lastAppliedSettings.seed = store.terrain.seed
    /\ SkyMatches(lastAppliedSkySettings, store.sky)
    /\ lastAppliedSkySettings.seed = store.sky.seed
    /\ ParticlesMatch(lastAppliedParticleSettings, store.particles)

\* C22: if a store call throws during Apply or during selection of a named
\* preset, the last-applied terrain, sky and particle settings, the identity
\* and the saved snapshot are what they were before the handler ran, and each
\* last-applied copy that equalled the store's settings still does.
C22_ThrowKeepsReconciliationState ==
    [][(lastOp'.op = "Throw" /\ lastOp'.handler \in {"Apply", "SelectNamedPreset"}) =>
        /\ UNCHANGED <<lastAppliedSettings, lastAppliedSkySettings,
                       lastAppliedParticleSettings, currentPresetId, savedCustomSettings>>
        /\ LastAppliedMirrorsStore => LastAppliedMirrorsStore']_vars


---------------------------------------------------------------------------
(* Apply with nothing to apply; the R key against the reset button *)

\* the last handler was main() or a selection of a preset that went through
\* (a named preset, or 'custom' with a snapshot to restore)
JustSynced ==
    \/ lastOp.op = "main"
    \/ lastOp.op = "SelectNamedPreset"
    \/ lastOp.op = "SelectCustom" /\ lastOp.restored

\* C23: an Apply click that follows initialisation or a successful selection
\* of a preset, with no edit of the panel in between, classifies the terrain
\* as 'none' and the sky as unchanged, generates no seed, and leaves the
\* terrain, sky and particle settings of the store (within the comparison
\* tolerances, particle_type exactly) and the identity as they were.
C23_ApplyAfterSyncIsNoOp ==
    [][(lastOp'.op = "Apply" /\ JustSynced) =>
        /\ lastOp'.category = "none"
        /\ ~lastOp'.skyChanged
        /\ lastOp'.seeds = <<>>
        /\ StoresMatch(store', store)
        /\ currentPresetId' = currentPresetId]_vars


\* the store, the last-applied terrain settings, the identity and the saved
\* snapshot the reset button leaves when generateSeed returns s
ResetResult(s) ==
    [store |-> [store EXCEPT !.terrain.seed = s],
     lastAppliedSettings |-> [store.terrain EXCEPT !.seed = s],
     currentPresetId |-> currentPresetId,
     savedCustomSettings |-> savedCustomSettings]

\* C25: from any reachable state, with or without unapplied edits of the
\* panel, the R key and the reset button given the same generated seed lead
\* to the same store, the same last-applied terrain settings (within the
\* comparison tolerances), the same identity and the same saved snapshot:
\* both lead to what the reset button leaves.
C25_KeyRLikeReset ==
    [][lastOp'.op \in {"KeyR", "Reset"} =>
        LET reset == ResetResult(lastOp'.seeds[1])
        IN  /\ store' = reset.store
            /\ TerrainMatches(lastAppliedSettings', reset.lastAppliedSettings)
            /\ TerrainRestMatches(lastAppliedSettings', reset.lastAppliedSettings)
            /\ lastAppliedSettings'.seed = reset.lastAppliedSettings.seed
            /\ currentPresetId' = reset.currentPresetId
            /\ savedCustomSettings' = reset.savedCustomSettings]_vars

---------------------------------------------------------------------------
(* Apply pressed again and again, between edits that may leave a numeric    *)
(* input with a text that is no number                                      *)

MaxApplySteps == 4               \* clicks and edits per run of repeated Apply

\* the texts typed and the inputs they are typed into (inputs read with
\* parseFloat and compared with numbersEqual)
TypedTexts == {<<>>, <<"x">>, <<"1">>, <<"1", "1">>}
TypedInputs == {"height-scale", "height-variance"}

\* the user leaves the text in the numeric input id
TextInput(id, text) == SliderInput(id, parseFloat(text))

NextApplyTwice ==
    \/ \E sT \in generateSeed, sS \in generateSeed : steps < MaxApplySteps /\ Apply(sT, sS)
    \/ \E id \in TypedInputs, text \in TypedTexts : steps < MaxApplySteps /\ TextInput(id, text)
    \/ \E e \in ColorEdits : steps < MaxApplySteps /\ ColorInput(e[1], e[2])
    \/ \E p \in SkyEdits : steps < MaxApplySteps /\ SkyPresetChange(p)

SpecApplyTwice == Init /\ [][NextApplyTwice]_vars

\* C24: a second Apply click with no edit of the panel since the first,
\* whatever the inputs hold (texts that are no number included), classifies
\* the terrain as 'none' and the sky as unchanged, generates no seed, calls
\* none of regenerate_terrain, update_terrain_settings and
\* update_sky_settings, and leaves the identity as it was.
C24_ApplyIdempotent ==
    [][(lastOp.op = "Apply" /\ lastOp'.op = "Apply") =>
        /\ lastOp'.category = "none"
        /\ ~lastOp'.skyChanged
        /\ lastOp'.seeds = <<>>
        /\ ~HasCall(calls', "regenerate_terrain")
        /\ ~HasCall(calls', "update_terrain_settings")
        /\ ~HasCall(calls', "update_sky_settings")
        /\ currentPresetId' = currentPresetId]_vars


---------------------------------------------------------------------------
(* The generation fields of the store and the heightfield on display *)

\* the generation fields of terrain settings, in the order of
\* GENERATION_SETTINGS
GenerationFields(settings) ==
    [i \in DOMAIN GENERATION_SETTINGS |-> settings[GENERATION_SETTINGS[i]]]

\* C27: the generation fields held by the store change only in operations
\* that also call regenerate_terrain; an Apply classified 'colors_only' (which
\* does not call it) leaves every generation field of the store exactly as it
\* was.
C27_GenerationFieldsNeedRegenerate ==
    [][GenerationFields(store'.terrain) # GenerationFields(store.terrain) =>
            HasCall(calls', "regenerate_terrain")]_vars

---------------------------------------------------------------------------
(* Settings without a control of the panel: preset switching with colour    *)
(* edits, Apply, reset and the R key                                        *)

MaxCarrySteps == 5               \* handlers and edits per run

\* the colours the user picks in these runs: a terrain colour, a sky colour
CarryEdits == {<<"color-grass", <<200, 30, 30>>>>, <<"star-color", <<255, 0, 0>>>>}

NextCarry ==
    \/ \E sT \in generateSeed, sS \in generateSeed : steps < MaxCarrySteps /\ Apply(sT, sS)
    \/ steps < MaxCarrySteps /\ SelectCustom
    \/ \E presetId \in PresetIds, d3 \in generateSeed, d4 \in generateSeed :
         \E d1 \in SnapshotSeeds, d2 \in SnapshotSeeds :
            steps < MaxCarrySteps /\ SelectNamedPreset(presetId, d1, d2, d3, d4)
    \/ \E s \in generateSeed : steps < MaxCarrySteps /\ KeyR(s)
    \/ \E s \in generateSeed : steps < MaxCarrySteps /\ Reset(s)
    \/ \E e \in CarryEdits : steps < MaxCarrySteps /\ ColorInput(e[1], e[2])

SpecCarry == Init /\ [][NextCarry]_vars

\* the fields of the terrain and sky settings that no input of the panel sets
Uncontrolled(st) ==
    <<st.terrain.ambient, st.terrain.fog_start, st.terrain.fog_distance,
      st.sky.star_size_min, st.sky.star_size_max, st.sky.star_twinkle_speed,
      st.sky.star_parallax, st.sky.sun_parallax, st.sky.moon_parallax,
      st.sky.sun_size, st.sky.moon_size>>

\* C26: the fields without a control (terrain ambient, fog_start,
\* fog_distance; sky star sizes, twinkle speed, the three parallax factors,
\* sun_size, moon_size) change in the store only when a preset is selected
\* (named, or 'custom' restoring the snapshot): Apply, reset and R leave
\* them as they are, also after a Custom restore that followed a preset with
\* other values.
C26_UncontrolledFieldsKept ==
    [][Uncontrolled(store') # Uncontrolled(store) =>
            lastOp'.op \in {"SelectNamedPreset", "SelectCustom"}]_vars


\* C28: selecting a named preset while the identity is a named preset leaves
\* the saved snapshot as it is, and the Custom restore that follows such a
\* selection writes that snapshot, whatever the two presets hold, to the
\* store and keeps it: the sequence Custom, preset A, preset B, Custom
\* restores the settings saved when Custom was left.
C28_SnapshotKeptBetweenPresets ==
    [][/\ (lastOp'.op = "SelectNamedPreset" /\ currentPresetId # "custom") =>
            savedCustomSettings' = savedCustomSettings
       /\ (/\ lastOp'.op = "SelectCustom"
           /\ lastOp.op = "SelectNamedPreset"
           /\ ~lastOp.fromCustom
           /\ savedCustomSettings # NULL) =>
            /\ store' = savedCustomSettings
            /\ savedCustomSettings' = savedCustomSettings
            /\ currentPresetId' = "custom"]_vars

\* Custom was left with an applied colour edit for preset A and preset B was
\* selected from A: the snapshot still holds the edited colour, which is
\* neither A's nor B's
C28_Witness ==
    /\ lastOp.op = "SelectNamedPreset"
    /\ ~lastOp.fromCustom
    /\ currentPresetId = "natural"
    /\ savedCustomSettings # NULL
    /\ savedCustomSettings.terrain.color_grass = hexToRgb(<<200, 30, 30>>)
    /\ \A presetId \in PresetIds :
          ~colorsEqual(savedCustomSettings.terrain.color_grass,
                       get_preset(presetId).terrain.color_grass)
    /\ store.terrain.color_grass = get_preset("natural").terrain.color_grass


---------------------------------------------------------------------------
(* detectTheme and detectSkyPreset on their own: settings that hold a       *)
(* theme's colours or a sky preset's fields, with one field moved            *)

\* channel value moved by d, kept within 0..CH
Moved(x, d) == IF x + d > CH THEN x - d ELSE x + d

\* terrain settings with the colours of the i-th theme
ThemeSettings(i) == TerrainColors(COLOR_THEMES[i]) @@ DEFAULT_TERRAIN_SETTINGS

\* sky settings with the fields the i-th sky preset defines
SkyPresetSettings(i) ==
    [f \in DOMAIN DEFAULT_SKY_SETTINGS |->
        IF Has(SKY_PRESETS[i], f) THEN SKY_PRESETS[i][f] ELSE DEFAULT_SKY_SETTINGS[f]]

SkyColorFields == {"star_color", "sun_color", "moon_color"}
SkyCountFields == {"star_count", "sun_count", "moon_count"}

\* the settings tried: each theme as it is and with the red channel of one
\* colour moved below or at the colour tolerance; each sky preset as it is
\* and with one field moved (a count by 1, a colour channel by the colour
\* tolerance, another number by 0.01)
DetectInputs ==
    {[kind |-> "theme", settings |-> ThemeSettings(i)] : i \in DOMAIN COLOR_THEMES}
    \cup {[kind |-> "theme",
           settings |-> [ThemeSettings(i) EXCEPT ![COLOR_SETTINGS[k]][1] = Moved(@, d)]] :
             i \in DOMAIN COLOR_THEMES, k \in DOMAIN COLOR_SETTINGS, d \in ColorDeltas}
    \cup {[kind |-> "sky", settings |-> SkyPresetSettings(i)] : i \in DOMAIN SKY_PRESETS}
    \cup {[kind |-> "sky",
           settings |-> [SkyPresetSettings(i) EXCEPT
                            ![f] = IF f \in SkyColorFields
                                   THEN [@ EXCEPT ![1] = Moved(@, COLOR_EPSILON)]
                                   ELSE IF f \in SkyCountFields THEN @ + 1
                                   ELSE @ + Num(1)]] :
             i \in DOMAIN SKY_PRESETS, f \in DOMAIN DEFAULT_SKY_SETTINGS \ {"seed"}}

InitDetect ==
    /\ InitUI
    /\ catCur = NULL /\ catPrev = NULL /\ catOut = NULL_NAME /\ catEdits = 0
    /\ fnIn \in DetectInputs
    /\ fnOut = NULL
    /\ SimIdle /\ TerrainIdle

\* detectTheme(settings) as applyPresetToUI and the load of the panel call it
DetectTheme ==
    /\ fnOut = NULL
    /\ fnIn.kind = "theme"
    /\ fnOut' = [name |-> detectTheme(fnIn.settings)]
    /\ UNCHANGED <<uiVars, catCur, catPrev, catOut, catEdits, fnIn>>

\* detectSkyPreset(settings)
DetectSkyPreset ==
    /\ fnOut = NULL
    /\ fnIn.kind = "sky"
    /\ fnOut' = [name |-> detectSkyPreset(fnIn.settings)]
    /\ UNCHANGED <<uiVars, catCur, catPrev, catOut, catEdits, fnIn>>

NextDetect == DetectTheme \/ DetectSkyPreset

SpecDetect == InitDetect /\ [][NextDetect]_vars

\* the name of the first entry of the table among hits, 'null' if none
FirstOf(table, hits) ==
    IF hits = {} THEN NULL_NAME
    ELSE table[CHOOSE i \in hits : \A j \in hits : i <= j].name

\* C29: detectTheme returns the first theme of the table whose colours match
\* the settings within the colour tolerance on every one of the ten terrain
\* colour fields (abyss, deep_water, shallow_water, sand, grass, rock, snow,
\* sky, sky_top, sky_horizon), and null when no theme does.
C29_ThemeMatchesEveryColour ==
    (fnOut # NULL /\ fnIn.kind = "theme") =>
        fnOut.name =
            FirstOf(COLOR_THEMES,
                    {i \in DOMAIN COLOR_THEMES :
                        \A k \in DOMAIN COLOR_SETTINGS :
                            ColorsMatch(fnIn.settings[COLOR_SETTINGS[k]],
                                        TerrainColors(COLOR_THEMES[i])[COLOR_SETTINGS[k]])})

\* C30: detectSkyPreset returns the first sky preset of the table for which
\* every field the preset defines (counts, sizes, colours, twinkle speed,
\* parallax) equals the field of the settings, and null when no preset does.
C30_SkyPresetMatchesEveryField ==
    (fnOut # NULL /\ fnIn.kind = "sky") =>
        fnOut.name =
            FirstOf(SKY_PRESETS,
                    {i \in DOMAIN SKY_PRESETS :
                        \A f \in DOMAIN SKY_PRESETS[i] \ {"name"} :
                            SKY_PRESETS[i][f] = fnIn.settings[f]})


---------------------------------------------------------------------------
(* Particle settings built from the panel; colours through a colour input *)

\* C31: every record buildParticleSettingsFromValues produces has density
\* within [0, 1], speed >= 0 and particle_type 0 or 1, with particle_type 0
\* whenever density is 0.
C31_ParticleSettingsInRange ==
    fnOut # NULL =>
        /\ fnOut.density >= 0
        /\ fnOut.density <= ONE
        /\ fnOut.speed >= 0
        /\ fnOut.particle_type \in {0, 1}
        /\ fnOut.density = 0 => fnOut.particle_type = 0


\* the other two channels of the colours followed
OtherChannels == {<<0, CH>>, <<CH \div 3, 59>>}

InitColor ==
    /\ InitUI
    /\ catCur = NULL /\ catPrev = NULL /\ catOut = NULL_NAME /\ catEdits = 0
    /\ \E r \in 0..CH, gb \in OtherChannels : fnIn = [color |-> <<r, gb[1], gb[2]>>]
    /\ fnOut = NULL
    /\ SimIdle /\ TerrainIdle

\* a colour of the store written to a colour input (rgbToHex), collected back
\* (hexToRgb) and compared with the settings it came from (categorizeChanges)
RoundTripColor ==
    /\ fnOut = NULL
    /\ LET c == fnIn.color
           hex == rgbToHex(c[1], c[2], c[3])
           back == hexToRgb(hex)
       IN  fnOut' = [hex |-> hex,
                     back |-> back,
                     category |-> categorizeChanges(
                         [DEFAULT_TERRAIN_SETTINGS EXCEPT !.color_grass = back],
                         [DEFAULT_TERRAIN_SETTINGS EXCEPT !.color_grass = c])]
    /\ UNCHANGED <<uiVars, catCur, catPrev, catOut, catEdits, fnIn>>

NextColor == RoundTripColor

SpecColor == InitColor /\ [][NextColor]_vars

\* C32: for every colour with channels in [0, 1], hexToRgb(rgbToHex(c)) equals
\* c within the colour tolerance, so a colour written to a colour input and
\* collected back is not classified as a colour change.
C32_ColorRoundTrip ==
    fnOut # NULL =>
        /\ colorsEqual(fnOut.back, fnIn.color)
        /\ fnOut.category = "none"

\* a channel half a byte step above a byte came back a whole byte step up
C32_Witness ==
    /\ fnOut # NULL
    /\ fnIn.color[1] = (CH \div 255) \div 2
    /\ fnOut.hex[1] = 1
    /\ fnOut.back[1] - fnIn.color[1] = (CH \div 255) \div 2
    /\ fnOut.category = "none"


---------------------------------------------------------------------------
(* Particle compute shader: the branch taken, the time the respawn reads,   *)
(* the slots a step writes                                                  *)

\* the conditions of the respawn branch, on the particle q after integration
\* of position and decrement of life
LifeOver(q) == ~IsNaN(q.life) /\ q.life <= 0
BelowDespawn(q) == ~IsNaN(q.position[2]) /\ q.position[2] < sim.despawn_height
OutOfRange(q) ==
    /\ ~IsNaN(q.position[1]) /\ ~IsNaN(q.position[3])
    /\ 4 * ((q.position[1] - sim.camera_pos[1]) * (q.position[1] - sim.camera_pos[1])
            + (q.position[3] - sim.camera_pos[3]) * (q.position[3] - sim.camera_pos[3]))
         > 9 * sim.spawn_radius * sim.spawn_radius
Corrupted(q) == \E k \in 1..3 : IsNaN(q.position[k]) \/ IsNaN(q.velocity[k])

\* slot i is active and its invocation of the running step has returned
Stepped(i) == simHist.steps > 0 /\ Active(i) /\ i \notin pending

\* C33: in a step, a particle with index below particle_count takes the
\* respawn branch if and only if, after integration of position and decrement
\* of life, its life is <= 0, or its height is below despawn_height, or its
\* horizontal distance from the camera exceeds 1.5 x spawn_radius, or a
\* component of its position or velocity is NaN; otherwise it takes the wind
\* branch and its life is the life it had less delta_time.
C33_RespawnBranchIff ==
    \A i \in Slots : Stepped(i) =>
        LET q == integrated(sim, particles_in[i])
        IN  IF LifeOver(q) \/ BelowDespawn(q) \/ OutOfRange(q) \/ Corrupted(q)
            THEN /\ i \in simHist.respawned
                 /\ particles_out[i] = respawn(sim, q, i)
            ELSE /\ i \notin simHist.respawned
                 /\ particles_out[i] = physics(sim, q)
                 /\ particles_out[i].life = FSub(particles_in[i].life, sim.delta_time)

\* a step that respawned one particle for its height alone and left the
\* other on the wind branch with its life one delta_time shorter
C33_Witness ==
    /\ pending = {}
    /\ sim.particle_count = PoolSize
    /\ \E i, j \in Slots :
        LET q == integrated(sim, particles_in[i])
        IN  /\ i \in simHist.respawned
            /\ BelowDespawn(q) /\ ~LifeOver(q) /\ ~OutOfRange(q) /\ ~Corrupted(q)
            /\ j \notin simHist.respawned
            /\ particles_out[j].life = particles_in[j].life - sim.delta_time
            /\ particles_out[j].velocity # particles_in[j].velocity


\* the parameters s with the time 1000 away: the same step at another time
\* of the same value modulo 1000
TwinTime(s) ==
    [s EXCEPT !.time = IF @ >= 1000 * P THEN @ - 1000 * P ELSE @ + 1000 * P]

\* C34: the respawn reads the time only modulo 1000: a step and the step
\* that differs from it by a multiple of 1000 in the time alone give every
\* respawned particle the same position, velocity and life, for rain and
\* for snow.
C34_RespawnReadsTimeModulo1000 ==
    \A i \in Slots : (Stepped(i) /\ i \in simHist.respawned) =>
        LET twin == simulated(TwinTime(sim), particles_in[i], i)
        IN  /\ twin.position = particles_out[i].position
            /\ twin.velocity = particles_out[i].velocity
            /\ twin.life = particles_out[i].life


\* the step has finished: every invocation of the dispatch has returned
StepDone == simHist.steps > 0 /\ pending = {}

\* C35 as stated: after a step the output buffer is a complete new state:
\* every slot of the pool holds the successor of the same slot of the input
\* buffer, none is left with data of an earlier step.
C35_OutputBufferComplete ==
    StepDone => \A i \in Slots : particles_out[i] = simulated(sim, particles_in[i], i)

\* C35, amended: after a step every slot of the output buffer with index
\* below particle_count holds the successor of the same slot of the input
\* buffer; a slot with index at or above particle_count is not written by
\* the step and holds what the output buffer held before it.
C35_OutputBufferActiveSlots ==
    /\ [](StepDone =>
            \A i \in Slots : Active(i) => particles_out[i] = simulated(sim, particles_in[i], i))
    /\ [][pending # {} =>
            \A i \in Slots : ~Active(i) => particles_out'[i] = particles_out[i]]_vars

\* a second step has finished with one active slot: the output buffer holds
\* its successor in slot 0, and in slot 1 the particle of the start, which
\* is not the successor of what the input buffer holds there
C35_Witness ==
    /\ simHist.steps = 2
    /\ pending = {}
    /\ sim.particle_count = 1
    /\ particles_out[0] = simulated(sim, particles_in[0], 0)
    /\ particles_out[0] # particles_in[0]
    /\ particles_out[1] \in InitialParticles
    /\ particles_out[1] # simulated(sim, particles_in[1], 1)


---------------------------------------------------------------------------
(* Terrain shader: compute_height for every invocation of a dispatch over   *)
(* the chunk, with a row and a column beyond the chunk edge, each on a      *)
(* buffer of its own                                                        *)

ChunkInvocations == (0..CHUNK_SIZE) \X (0..CHUNK_SIZE)

ChunkComputeParams ==
    {c \in SampleComputeParams : c.pattern_type = 0 /\ c.seed = 42 /\ c.height_variance = T}

InitChunk ==
    /\ InitUI
    /\ catCur = NULL /\ catPrev = NULL /\ catOut = NULL_NAME /\ catEdits = 0
    /\ fnIn = NULL /\ fnOut = NULL /\ SimIdle
    /\ compute_params \in ChunkComputeParams
    /\ height_buffer = [i \in 0..(CHUNK_SIZE * CHUNK_SIZE - 1) |-> 7 * T]
    /\ \E id \in ChunkInvocations : cells = {id}
    /\ heightHist = [runs |-> 1, log |-> {}]

NextChunk == \E id \in ChunkInvocations : compute_height(id)

SpecChunk == InitChunk /\ [][NextChunk]_vars

\* the index of the height buffer that belongs to the grid cell id, and the
\* grid cell that belongs to the index k
CellIndex(id) == id[2] * CHUNK_SIZE + id[1]
CellOf(k) == <<k % CHUNK_SIZE, k \div CHUNK_SIZE>>

BufferIndices == 0..(CHUNK_SIZE * CHUNK_SIZE - 1)

InChunk(id) == id[1] < CHUNK_SIZE /\ id[2] < CHUNK_SIZE

\* C36: a dispatch of compute_height writes exactly one height per grid cell
\* at index row * 64 + col: an invocation with a column or row of 64 or more
\* writes nothing; an invocation of a cell of the chunk writes the index
\* row * 64 + col and no other, no other cell has that index and every index
\* 0..4095 is that of a cell of the chunk; nothing but the height buffer is
\* modified.
C36_OneHeightPerCell ==
    [][\A id \in cells \ cells' :
        /\ IF InChunk(id)
           THEN /\ CellIndex(id) \in BufferIndices
                /\ CellOf(CellIndex(id)) = id
                /\ height_buffer' =
                        [height_buffer EXCEPT ![CellIndex(id)] = height(compute_params, id)]
           ELSE height_buffer' = height_buffer
        /\ {CellIndex(c) : c \in {i \in ChunkInvocations : InChunk(i)}} = BufferIndices
        /\ UNCHANGED <<compute_params, pageVars, simVars, fnVars,
                       catCur, catPrev, catOut, catEdits>>]_vars

\* the invocation of the first cell of the second row has written index 64
\* and nothing else
C36_Witness ==
    /\ cells = {}
    /\ \E r \in heightHist.log : r.id = <<0, 1>> /\ height_buffer[CHUNK_SIZE] = r.height
    /\ height_buffer[CHUNK_SIZE] # 7 * T
    /\ \A k \in BufferIndices : k # CHUNK_SIZE => height_buffer[k] = 7 * T

\* C37: for a pattern selector outside the six values 0..5, compute_height
\* still writes a height for the cell, and it is the height the standard
\* pattern 0 gives for the same parameters (the base warped-fractal
\* algorithm).
C37_UnknownPatternIsStandard ==
    /\ \A r \in heightHist.log :
        r.params.pattern_type \notin 0..5 =>
            r.height = height([r.params EXCEPT !.pattern_type = 0], r.id)
    /\ (compute_params.pattern_type \notin 0..5 /\ heightHist.runs > 0 /\ cells = {}) =>
            \A id \in CellSamples : InChunk(id) => \E r \in heightHist.log : r.id = id

---------------------------------------------------------------------------
(* Terrain shader: vs_main and get_height (terrain.wgsl 281-311), in the    *)
(* fixed point of the terrain shader                                        *)

\* clamp(e, low, high) of WGSL
clamp(e, low, high) == Min(Max(e, low), high)

height_index_Wraps(x, y) == (y % CHUNK_SIZE) * CHUNK_SIZE + (x % CHUNK_SIZE)

\* u32(cy) * CHUNK_SIZE + u32(cx) of get_height, cx and cy the clamped x and y
height_index(x, y) ==
    clamp(y, 0, CHUNK_SIZE - 1) * CHUNK_SIZE + clamp(x, 0, CHUNK_SIZE - 1)

\* fn get_height(x: i32, y: i32) -> f32, on the buffer heights
get_height(heights, x, y) == heights[height_index(x, y)]

\* i32(uv * f32(CHUNK_SIZE - 1u) + 0.5): the conversion drops the fraction
grid_of(uv) == (uv * (CHUNK_SIZE - 1) + T \div 2) \div T

\* (a - b) / (2.0 * step), step = CHUNK_WORLD_SIZE / f32(CHUNK_SIZE - 1u)
slope(a, b) == ((a - b) * (CHUNK_SIZE - 1)) \div (2 * CHUNK_WORLD_SIZE)

\* v / length(v) for a vector short enough for its squares
unit_vector(v) ==
    LET len == IRoot(2, v[1] * v[1] + v[2] * v[2] + v[3] * v[3])
    IN  IF len = 0 THEN <<NaN, NaN, NaN>>
        ELSE <<(v[1] * T) \div len, (v[2] * T) \div len, (v[3] * T) \div len>>

\* normalize(v); the vector of length 0 has no direction.  A long vector is
\* scaled down first, which leaves its direction
normalize(v) ==
    LET s == Max(Max(Abs(v[1]), Abs(v[2])), Abs(v[3])) \div 16384 + 1
    IN  IF s = 1 THEN unit_vector(v)
        ELSE unit_vector(<<RDiv(Abs(v[1]), s) * (IF v[1] < 0 THEN 0 - 1 ELSE 1),
                           RDiv(Abs(v[2]), s) * (IF v[2] < 0 THEN 0 - 1 ELSE 1),
                           RDiv(Abs(v[3]), s) * (IF v[3] < 0 THEN 0 - 1 ELSE 1)>>)

\* camera.view_proj * vec4f(p, 1.0); m is the matrix by rows
transformed(m, p) ==
    [i \in 1..4 |-> (m[i][1] * p[1] + m[i][2] * p[2] + m[i][3] * p[3] + m[i][4] * T) \div T]

\* fn vs_main of the terrain shader; reads names the index of the height
\* buffer each of the five get_height calls reads
terrain_vs_main(in, heights, chunk_offset, view_proj) ==
    LET grid_x == grid_of(in.local_uv[1])
        grid_y == grid_of(in.local_uv[2])
        h == get_height(heights, grid_x, grid_y)
        pos == <<chunk_offset[1] + in.local_uv[1] * CHUNK_WORLD_SIZE, h,
                 chunk_offset[2] + in.local_uv[2] * CHUNK_WORLD_SIZE>>
        dx == slope(get_height(heights, grid_x + 1, grid_y), get_height(heights, grid_x - 1, grid_y))
        dz == slope(get_height(heights, grid_x, grid_y + 1), get_height(heights, grid_x, grid_y - 1))
    IN  [grid |-> <<grid_x, grid_y>>,
         reads |-> [here |-> height_index(grid_x, grid_y),
                    left |-> height_index(grid_x - 1, grid_y),
                    right |-> height_index(grid_x + 1, grid_y),
                    down |-> height_index(grid_x, grid_y - 1),
                    up |-> height_index(grid_x, grid_y + 1)],
         world_pos |-> pos,
         normal |-> normalize(<<0 - dx, T, 0 - dz>>),
         height |-> h,
         clip_position |-> transformed(view_proj, pos)]

\* in.local_uv of the vertex in column col and row row of the chunk mesh
VertexUV(col, row) == <<RDiv(col * T, CHUNK_SIZE - 1), RDiv(row * T, CHUNK_SIZE - 1)>>

\* the heights of the chunk drawn: a slope that rises by 1 per column and by
\* 2 per row
SlopeHeights == [k \in 0..(CHUNK_SIZE * CHUNK_SIZE - 1) |-> (k % CHUNK_SIZE) * T + (k \div CHUNK_SIZE) * 2 * T]

IdentityMatrix == <<(<<T, 0, 0, 0>>), (<<0, T, 0, 0>>), (<<0, 0, T, 0>>), (<<0, 0, 0, T>>)>>

InitVertex ==
    /\ InitUI
    /\ catCur = NULL /\ catPrev = NULL /\ catOut = NULL_NAME /\ catEdits = 0
    /\ SimIdle
    /\ compute_params = NULL /\ cells = {} /\ heightHist = NULL
    /\ height_buffer = SlopeHeights
    /\ \E col \in 0..(CHUNK_SIZE - 1), row \in 0..(CHUNK_SIZE - 1) :
        fnIn = [local_uv |-> VertexUV(col, row), vertex |-> <<col, row>>,
                chunk_offset |-> <<0, 0>>, view_proj |-> IdentityMatrix]
    /\ fnOut = NULL

\* the vertex shader runs for the vertex
VertexMain ==
    /\ fnOut = NULL
    /\ fnOut' = terrain_vs_main(fnIn, height_buffer, fnIn.chunk_offset, fnIn.view_proj)
    /\ UNCHANGED <<uiVars, catCur, catPrev, catOut, catEdits, fnIn>>

NextVertex == VertexMain

SpecVertex == InitVertex /\ [][NextVertex]_vars

\* C38: normal reconstruction never reads outside the height buffer of the
\* chunk: for every vertex of the grid and each of its four axis neighbours
\* get_height reads an index in 0..4095, and a neighbour that would fall
\* outside the chunk is replaced by the edge sample of the same row or
\* column, never by the sample of the opposite edge.
C38_NeighboursClamped ==
    fnOut # NULL =>
        LET col == fnIn.vertex[1]
            row == fnIn.vertex[2]
            last == CHUNK_SIZE - 1
        IN  /\ fnOut.grid = fnIn.vertex
            /\ \A n \in DOMAIN fnOut.reads : fnOut.reads[n] \in 0..(CHUNK_SIZE * CHUNK_SIZE - 1)
            /\ fnOut.reads.here = row * CHUNK_SIZE + col
            /\ fnOut.reads.left = row * CHUNK_SIZE + (IF col = 0 THEN 0 ELSE col - 1)
            /\ fnOut.reads.right = row * CHUNK_SIZE + (IF col = last THEN last ELSE col + 1)
            /\ fnOut.reads.down = (IF row = 0 THEN 0 ELSE row - 1) * CHUNK_SIZE + col
            /\ fnOut.reads.up = (IF row = last THEN last ELSE row + 1) * CHUNK_SIZE + col

\* the vertex of the last column and the first row: its right neighbour and
\* its lower neighbour are the vertex itself, and the slope across the
\* columns comes out at half of what it is inside the chunk
C38_Witness ==
    /\ fnOut # NULL
    /\ fnIn.vertex = <<CHUNK_SIZE - 1, 0>>
    /\ fnOut.reads.right = CHUNK_SIZE - 1
    /\ fnOut.reads.down = CHUNK_SIZE - 1
    /\ fnOut.reads.left = CHUNK_SIZE - 2
    /\ fnOut.reads.up = 2 * CHUNK_SIZE - 1
    /\ fnOut.normal[1] < 0
    /\ fnOut.normal[1] > terrain_vs_main([fnIn EXCEPT !.local_uv = VertexUV(1, 1)], height_buffer,
                                         fnIn.chunk_offset, fnIn.view_proj).normal[1]

---------------------------------------------------------------------------
(* Sky objects shader (sky.wgsl 1-120), in the fixed point of the terrain   *)
(* shader                                                                   *)

QUAD_VERTS ==
    <<(<<0 - T, 0 - T>>), (<<T, 0 - T>>), (<<0 - T, T>>),
      (<<0 - T, T>>), (<<T, 0 - T>>), (<<T, T>>)>>

\* cross(a, b)
cross(a, b) ==
    <<Minus(Times(a[2], b[3]), Times(a[3], b[2])),
      Minus(Times(a[3], b[1]), Times(a[1], b[3])),
      Minus(Times(a[1], b[2]), Times(a[2], b[1]))>>

\* uniforms.camera_pos.xz * obj.parallax_factor * 0.001
parallax_offset(camera_pos, obj) ==
    <<((camera_pos[1] * obj.parallax_factor) \div T) \div 1000,
      ((camera_pos[3] * obj.parallax_factor) \div T) \div 1000>>

sky_base_pos_Unclamped(camera_pos, obj) ==
    <<obj.position[1] + parallax_offset(camera_pos, obj)[1],
      obj.position[2],
      obj.position[3] + parallax_offset(camera_pos, obj)[2]>>

\* var base_pos of vs_main, after the parallax offset and the max
sky_base_pos(camera_pos, obj) ==
    <<obj.position[1] + parallax_offset(camera_pos, obj)[1],
      Max(obj.position[2], camera_pos[2] + 5 * T),
      obj.position[3] + parallax_offset(camera_pos, obj)[2]>>

\* fn vs_main of the sky shader, for the object obj and the vertex vertex_id
\* of its quad
sky_vs_main(u, obj, vertex_id) ==
    LET quad_vert == QUAD_VERTS[vertex_id + 1]
        base_pos == sky_base_pos(u.camera_pos, obj)
        to_cam == normalize([i \in 1..3 |-> u.camera_pos[i] - base_pos[i]])
        right == IF \E i \in 1..3 : IsNaN(cross(<<0, T, 0>>, to_cam)[i])
                 THEN <<NaN, NaN, NaN>>
                 ELSE normalize(cross(<<0, T, 0>>, to_cam))
        up == cross(to_cam, right)
        offset == <<(quad_vert[1] * obj.size) \div T, (quad_vert[2] * obj.size) \div T>>
        world == [i \in 1..3 |->
                    Plus(Plus(base_pos[i], Times(right[i], offset[1])), Times(up[i], offset[2]))]
    IN  [base_pos |-> base_pos,
         position |-> IF \E i \in 1..3 : IsNaN(world[i]) THEN <<NaN, NaN, NaN, NaN>>
                      ELSE transformed(u.view_proj, world),
         uv |-> <<quad_vert[1] \div 2 + T \div 2, quad_vert[2] \div 2 + T \div 2>>,
         color |-> obj.color,
         object_type |-> obj.object_type,
         seed |-> obj.seed]

\* sin(x) of the fragment shader, x in radians, on the twelve directions
sky_sin(x) == (sin(((x * 12) \div ((628318 * T) \div 100000)) % 12) * T) \div P

\* smoothstep(high, low, x) with high > low, as the shader calls it: the
\* interpolation runs from 1 at low to 0 at high
smoothstep_down(high, low, x) == smoothstep(0 - high, 0 - low, 0 - x)

\* in.color * f, and the alpha
shaded(color, f, alpha) == <<(color[1] * f) \div T, (color[2] * f) \div T, (color[3] * f) \div T, alpha>>

\* case 0u
star(in, time, dist) ==
    LET twinkle == (sky_sin(time * 3 + in.seed) * 3) \div 10 + (7 * T) \div 10
        alpha == (smoothstep_down(T \div 2, 0, dist) * twinkle) \div T
        glow == smoothstep_down(T \div 2, T \div 10, dist) \div 2
    IN  shaded(in.color, T + glow \div 2, alpha)

\* case 1u
sun(in, dist) ==
    LET core == smoothstep_down((3 * T) \div 10, T \div 10, dist)
        glow == smoothstep_down(T \div 2, 0, dist)
        corona == smoothstep_down(T \div 2, (3 * T) \div 10, dist) \div 2
        brightness == core + corona \div 2
    IN  shaded(in.color, (8 * T) \div 10 + (brightness * 4) \div 10, glow)

\* case 2u
moon(in, dist) ==
    LET alpha == smoothstep_down(T \div 2, (45 * T) \div 100, dist)
        shade == (85 * T) \div 100 + (15 * (T - in.uv[1])) \div 100
    IN  shaded(in.color, shade, alpha)

sky_fs_main_UnknownAsStar(in, time) ==
    LET dx == in.uv[1] - T \div 2
        dy == in.uv[2] - T \div 2
        dist == IRoot(2, dx * dx + dy * dy)
    IN  CASE in.object_type = 1 -> sun(in, dist)
          [] in.object_type = 2 -> moon(in, dist)
          [] OTHER -> star(in, time, dist)

\* fn fs_main of the sky shader
sky_fs_main(in, time) ==
    LET dx == in.uv[1] - T \div 2
        dy == in.uv[2] - T \div 2
        dist == IRoot(2, dx * dx + dy * dy)
    IN  CASE in.object_type = 0 -> star(in, time, dist)
          [] in.object_type = 1 -> sun(in, dist)
          [] in.object_type = 2 -> moon(in, dist)
          [] OTHER -> <<0, 0, 0, 0>>

\* the objects, cameras and times followed: the three kinds and an unknown
\* one, an object above the camera and one below it, three parallax factors
SkyObjects ==
    {[position |-> <<100 * T, y, 50 * T>>, size |-> 4 * T, color |-> <<T, (9 * T) \div 10, T \div 2>>,
      object_type |-> ty, seed |-> T, parallax_factor |-> pf] :
        y \in {0 - 10 * T, 120 * T}, ty \in {0, 1, 2, 3}, pf \in {0, T \div 2, T}}

SkyCameras == {<<0, 0, 0>>, <<100 * T, 20 * T, 50 * T>>, <<2000 * T, 100 * T, 0 - 1000 * T>>}

\* where on the quad the fragment lies: the centre, off the centre, a corner
FragmentUVs == {<<T \div 2, T \div 2>>, <<(3 * T) \div 4, T \div 2>>, <<T, T>>}

InitSky ==
    /\ InitUI
    /\ catCur = NULL /\ catPrev = NULL /\ catOut = NULL_NAME /\ catEdits = 0
    /\ SimIdle /\ TerrainIdle
    /\ \E obj \in SkyObjects, cam \in SkyCameras, t \in {0, T} :
        fnIn = [obj |-> obj,
                uniforms |-> [view_proj |-> IdentityMatrix, camera_pos |-> cam, time |-> t]]
    /\ fnOut = NULL

\* the vertex shader runs for one of the six vertices of the quad
SkyVertex ==
    /\ fnOut = NULL
    /\ \E vertex_id \in 0..5 :
        fnOut' = [vs |-> sky_vs_main(fnIn.uniforms, fnIn.obj, vertex_id), fs |-> NULL]
    /\ UNCHANGED <<uiVars, catCur, catPrev, catOut, catEdits, fnIn>>

\* the fragment shader runs for a fragment of the quad
SkyFragment ==
    /\ fnOut # NULL
    /\ fnOut.fs = NULL
    /\ \E uv \in FragmentUVs :
        fnOut' = [fnOut EXCEPT !.fs =
                    [uv |-> uv,
                     rgba |-> sky_fs_main([fnOut.vs EXCEPT !.uv = uv], fnIn.uniforms.time)]]
    /\ UNCHANGED <<uiVars, catCur, catPrev, catOut, catEdits, fnIn>>

NextSky == SkyVertex \/ SkyFragment

SpecSky == InitSky /\ [][NextSky]_vars

\* C39: a sky object whose type is not 0 (star), 1 (sun) or 2 (moon) is
\* rendered fully transparent, colour and alpha all zero, at every pixel;
\* each of the three known types has a branch of its own, which gives the
\* centre of the quad a positive alpha.
C39_UnknownTypeTransparent ==
    (fnOut # NULL /\ fnOut.fs # NULL) =>
        LET in == [fnOut.vs EXCEPT !.uv = fnOut.fs.uv]
            dist == IRoot(2, (in.uv[1] - T \div 2) * (in.uv[1] - T \div 2)
                             + (in.uv[2] - T \div 2) * (in.uv[2] - T \div 2))
        IN  /\ fnIn.obj.object_type \notin {0, 1, 2} => fnOut.fs.rgba = <<0, 0, 0, 0>>
            /\ fnIn.obj.object_type = 0 => fnOut.fs.rgba = star(in, fnIn.uniforms.time, dist)
            /\ fnIn.obj.object_type = 1 => fnOut.fs.rgba = sun(in, dist)
            /\ fnIn.obj.object_type = 2 => fnOut.fs.rgba = moon(in, dist)
            /\ (fnIn.obj.object_type \in {0, 1, 2} /\ dist = 0) => fnOut.fs.rgba[4] > 0

\* the centre of the quad of an object of type 3 has been shaded, and the
\* same object as a star, a sun or a moon would be visible there
C39_Witness ==
    /\ fnOut # NULL /\ fnOut.fs # NULL
    /\ fnIn.obj.object_type = 3
    /\ fnOut.fs.uv = <<T \div 2, T \div 2>>
    /\ fnOut.fs.rgba = <<0, 0, 0, 0>>
    /\ \A ty \in {0, 1, 2} :
        sky_fs_main([fnOut.vs EXCEPT !.uv = fnOut.fs.uv, !.object_type = ty],
                    fnIn.uniforms.time)[4] > 0

\* C40: for every camera position and every sky object, the base position
\* after the parallax offset is at a height of at least the camera height
\* plus 5, and the parallax offset moves it horizontally by camera.xz x
\* parallax_factor x 0.001 and does not change its height: the height is the
\* object's own where that is at least camera height plus 5.
C40_BasePositionAboveCamera ==
    fnOut # NULL =>
        LET base == fnOut.vs.base_pos
            cam == fnIn.uniforms.camera_pos
            obj == fnIn.obj
        IN  /\ base[2] >= cam[2] + 5 * T
            /\ base[1] - obj.position[1] = ((cam[1] * obj.parallax_factor) \div T) \div 1000
            /\ base[3] - obj.position[3] = ((cam[3] * obj.parallax_factor) \div T) \div 1000
            /\ obj.position[2] >= cam[2] + 5 * T => base[2] = obj.position[2]
            /\ obj.position[2] < cam[2] + 5 * T => base[2] = cam[2] + 5 * T

\* an object below the camera, seen from a camera far from the origin with
\* the full parallax factor: moved sideways, and lifted to 5 above the camera
C40_Witness ==
    /\ fnOut # NULL
    /\ fnIn.obj.position[2] < fnIn.uniforms.camera_pos[2]
    /\ fnIn.obj.parallax_factor = T
    /\ fnOut.vs.base_pos[1] - fnIn.obj.position[1] = 2 * T
    /\ fnOut.vs.base_pos[3] - fnIn.obj.position[3] = 0 - T
    /\ fnOut.vs.base_pos[2] = fnIn.uniforms.camera_pos[2] + 5 * T

=============================================================================
